---- MODULE Spec2Model ----
(***************************************************************************)
(* The Intel Processor Trace driver (insntrace) of                         *)
(* src/system/dev/board/crosshatch/crosshatch-devices.c as a state machine:*)
(* one action per ioctl operation and one for the release hook, each       *)
(* translated from its handler and the functions the handler calls.        *)
(* Record constructors list their fields in one fixed order throughout.    *)
(*                                                                         *)
(* Representation choices:                                                 *)
(*  - a 64-bit IA32_RTIT_CTL value is the function from its nonzero named  *)
(*    bit-fields (and the remaining RESERVED bits) to the field's value;   *)
(*    a mask is the set of fields it covers, so (ctl & ~mask) != 0 reads   *)
(*    "some field outside mask is nonzero";                                *)
(*  - a hardware "legal value" mask (mtc_freq_mask ...) is the set of its  *)
(*    set bit positions, so ((1 << v) & mask) != 0 reads v \in mask;       *)
(*  - an io_buffer_t is its physical address; NULL and an array none of    *)
(*    whose io_buffers is initialised are both the empty sequence;         *)
(*  - every external call (zx_mtrace_control, io_buffer_init*, calloc)     *)
(*    is an input of the action that makes it.                             *)
(***************************************************************************)
EXTENDS Integers, Sequences, FiniteSets, TLC

\* ------------------------------------------------------------- bounds
\* zx_system_get_num_cpus(): the number of cpus of the machine.
NumCpus == 2
\* Largest num_chunks a modelled ALLOC_BUFFER request asks for.
MaxReqChunks == 2

\* ------------------------------------------------- program constants
MAX_NUM_CHUNKS == 4096
MAX_CHUNK_ORDER == 8
PAGE_SIZE == 4096
PAGE_SIZE_SHIFT == 12
\* 256 * 1024 * 1024
MAX_PER_TRACE_SPACE == 268435456
\* Declared in intel-pt.h, which is not among the sources.
IPT_MAX_NUM_TRACES == 64
IPT_MAX_NUM_ADDR_RANGES == 4
IPT_TOPA_MAX_TABLE_ENTRIES == 8

\* ioctl_insntrace_trace_config_t.mode
IPT_MODE_CPUS == 0
IPT_MODE_THREADS == 1

\* ipt_trace_mode_t
IPT_TRACE_CPUS == "IPT_TRACE_CPUS"
IPT_TRACE_THREADS == "IPT_TRACE_THREADS"

\* zx_status_t
ZX_OK == "ZX_OK"
ZX_ERR_INTERNAL == "ZX_ERR_INTERNAL"
ZX_ERR_NOT_SUPPORTED == "ZX_ERR_NOT_SUPPORTED"
ZX_ERR_NO_RESOURCES == "ZX_ERR_NO_RESOURCES"
ZX_ERR_NO_MEMORY == "ZX_ERR_NO_MEMORY"
ZX_ERR_INVALID_ARGS == "ZX_ERR_INVALID_ARGS"
ZX_ERR_BAD_STATE == "ZX_ERR_BAD_STATE"
ZX_ERR_BUFFER_TOO_SMALL == "ZX_ERR_BUFFER_TOO_SMALL"
ZX_ERR_ACCESS_DENIED == "ZX_ERR_ACCESS_DENIED"

NULL == << >>

\* ------------------------------------------------------ IA32_RTIT_CTL
CtlBitFields ==
    {"TRACE_EN", "CYC_EN", "OS_ALLOWED", "USER_ALLOWED", "POWER_EVENT_EN",
     "FUP_ON_PTW", "CR3_FILTER", "TOPA", "MTC_EN", "TSC_EN", "DIS_RETC",
     "PTW_EN", "BRANCH_EN"}
CtlMultiFields ==
    {"MTC_FREQ", "CYC_THRESH", "PSB_FREQ", "ADDR0", "ADDR1", "ADDR2", "ADDR3"}
CtlFields == CtlBitFields \cup CtlMultiFields \cup {"RESERVED"}

\* A ctl value is held as the function from its nonzero fields to their
\* values; CtlGet reads a field.
CtlGet(ctl, x) == IF x \in DOMAIN ctl THEN ctl[x] ELSE 0
CtlZero == << >>
\* ctl | mask, for a mask of single-bit fields
CtlOr(ctl, mask) ==
    [x \in (DOMAIN ctl) \cup mask |-> IF x \in mask THEN 1 ELSE ctl[x]]
\* (ctl & ~mask) != 0
CtlOutside(ctl, mask) == \E x \in (DOMAIN ctl) \ mask : ctl[x] # 0

\* addr_ranges[k] is the pair <<a, b>>.
ZeroAddrRanges == [k \in 1..IPT_MAX_NUM_ADDR_RANGES |-> <<0, 0>>]

\* ------------------------------------------------ ipt_per_trace_state
\* calloc/memset(0) of an ipt_per_trace_state_t
ZeroSlot ==
    [ctl |-> CtlZero, owner_cpu |-> 0, num_chunks |-> 0,
     chunk_order |-> 0, is_circular |-> FALSE, allocated |-> FALSE,
     assigned |-> FALSE, num_tables |-> 0, status |-> 0, output_base |-> 0,
     output_mask_ptrs |-> [hi |-> 0, lo |-> 0], cr3_match |-> 0,
     addr_ranges |-> ZeroAddrRanges, chunks |-> NULL, topas |-> NULL]

\* calloc(1, sizeof(insntrace_device_t)) in insntrace_bind
ZeroDev ==
    [mode |-> IPT_TRACE_CPUS, num_traces |-> 0, per_trace_state |-> NULL,
     active |-> FALSE]

\* The registers of a slot, as zx_x86_pt_regs_t lays them out.
SlotRegs(s) ==
    [ctl |-> s.ctl, status |-> s.status, output_base |-> s.output_base,
     output_mask_ptrs |-> s.output_mask_ptrs, cr3_match |-> s.cr3_match,
     addr_ranges |-> s.addr_ranges]

\* The result of a handler: the device afterwards, the status returned, the
\* reply payload, the zx_mtrace_control calls it made, and the io_buffers
\* it initialised (acq) and released (rel), each in program order.
Res(d, r) ==
    [dev |-> d, ret |-> r, reply |-> NULL, calls |-> << >>, acq |-> << >>,
     rel |-> << >>]

\* ----------------------------------------------------- capabilities
\* The ipt_config_* globals insntrace_init_once leaves behind.  A device
\* exists only if insntrace_init_once returned ZX_OK, that is with
\* ipt_config_supported set.  The legal-value masks and num_addr_ranges
\* are read from cpuid leaf 0x14.1 only when the psb bit is set.
MkCaps(topa, multi, cr3, psb, mtc, mtcmask) ==
    [psb |-> psb, mtc |-> mtc, supported |-> TRUE,
     output_topa |-> topa, output_topa_multi |-> multi, cr3_filtering |-> cr3,
     ip_filtering |-> FALSE, ptwrite |-> FALSE, power_events |-> FALSE,
     num_addr_ranges |-> 0,
     mtc_freq_mask |-> IF psb THEN mtcmask ELSE {},
     cyc_thresh_mask |-> {}, psb_freq_mask |-> {}]

\* A cpu with multi-entry ToPA, one with single-entry ToPA only, one
\* without ToPA output.
CapsSet ==
    {MkCaps(TRUE, TRUE, TRUE, TRUE, TRUE, {0, 3}),
     MkCaps(TRUE, FALSE, FALSE, FALSE, FALSE, {}),
     MkCaps(FALSE, FALSE, FALSE, FALSE, FALSE, {})}

\* The legal-value masks cpuid leaf 0x14.1 reports on the cpus modelled:
\* none, or some of the values a single ctl bit can encode.
HwMasks ==
    {[psb |-> {}, mtc |-> {}, cyc |-> {}],
     [psb |-> {0, 8}, mtc |-> {0, 2, 3}, cyc |-> {0, 1, 4}]}
HwAddrRanges == {0, 3}

\* The capability records of cpus with multi-entry ToPA output: the six
\* feature bits of cpuid leaf 0x14.0 ebx are independent; the masks and
\* num_addr_ranges stay zero unless the psb bit is set.
CapsAll ==
    {[MkCaps(TRUE, TRUE, cr3, psb, mtc, hw.mtc) EXCEPT
        !.ip_filtering = ipf, !.ptwrite = ptw, !.power_events = pwr,
        !.num_addr_ranges = IF psb THEN nar ELSE 0,
        !.cyc_thresh_mask = IF psb THEN hw.cyc ELSE {},
        !.psb_freq_mask = IF psb THEN hw.psb ELSE {}] :
        cr3 \in BOOLEAN, psb \in BOOLEAN, mtc \in BOOLEAN,
        ipf \in BOOLEAN, ptw \in BOOLEAN, pwr \in BOOLEAN,
        hw \in HwMasks, nar \in HwAddrRanges}

\* -------------------------------------------------- DMA allocator
\* Physical address io_buffer_init_aligned gives chunk i of descriptor d:
\* naturally aligned for every chunk order.
ChunkPa(d, i) ==
    (1 + d * IPT_MAX_NUM_TRACES + i) * 2^(PAGE_SIZE_SHIFT + MAX_CHUNK_ORDER)
\* A chunk address with a low bit set (an allocator bug).
BadChunkPa(d, i) == ChunkPa(d, i) + 8
\* A chunk address aligned to a page and to nothing larger.
PageChunkPa(d, i) == ChunkPa(d, i) + PAGE_SIZE
\* Physical address io_buffer_init gives table t of descriptor d.
TablePa(d, t) == 2^30 + (d * IPT_MAX_NUM_TRACES + t) * PAGE_SIZE

\* x & (2^n - 1) != 0
LowBitsSet(x, n) == x % (2^n) # 0

\* What the allocator does during one x86_pt_alloc_buffer1:
\*   ok             every allocation succeeds, every chunk is aligned
\*   calloc_chunks  calloc of the chunk array fails
\*   chunk_init     io_buffer_init_aligned of chunk `at` fails with `err`
\*   misaligned     chunk `at` comes back misaligned
\*   page_aligned   chunk `at` comes back aligned to a page only
\*   calloc_topas   calloc of the table array fails
\*   table_init     io_buffer_init of table `at` fails with `err`
Io(kind, at, err) == [kind |-> kind, at |-> at, err |-> err]
IoOk == Io("ok", 0, ZX_OK)
AllocErrs == {ZX_ERR_NO_MEMORY, ZX_ERR_NO_RESOURCES}
IoOutcomes(num) ==
    {IoOk, Io("calloc_chunks", 0, ZX_ERR_NO_MEMORY),
     Io("calloc_topas", 0, ZX_ERR_NO_MEMORY)}
    \cup {Io("chunk_init", i, e) : i \in 0..(num - 1), e \in AllocErrs}
    \cup {Io("misaligned", i, ZX_OK) : i \in 0..(num - 1)}
    \cup {Io("table_init", 0, e) : e \in AllocErrs}

\* compute_topa_entry_count without the END entry of a table that holds
\* a single data entry.
compute_topa_entry_count_short(num_chunks) ==
    LET num_entries == num_chunks
        num_end_entries ==
            (num_entries + IPT_TOPA_MAX_TABLE_ENTRIES - 3)
                \div (IPT_TOPA_MAX_TABLE_ENTRIES - 1)
    IN  num_entries + num_end_entries

\* ------------------------------------------------------ ToPA sizing
compute_topa_entry_count(num_chunks) ==
    LET num_entries == num_chunks
        num_end_entries ==
            (num_entries + IPT_TOPA_MAX_TABLE_ENTRIES - 2)
                \div (IPT_TOPA_MAX_TABLE_ENTRIES - 1)
    IN  num_entries + num_end_entries

\* The chunk loop asking for page alignment whatever the chunk order.
AllocChunksPageOnly(d, num, order, io) ==
    LET alignment_log2 == PAGE_SIZE_SHIFT
        pa(i) == IF io.kind = "misaligned" /\ io.at = i
                 THEN BadChunkPa(d, i)
                 ELSE IF io.kind = "page_aligned" /\ io.at = i
                 THEN PageChunkPa(d, i)
                 ELSE ChunkPa(d, i)
        \* the loop returns at the chunk that fails or is misaligned
        n_ok == IF io.kind = "chunk_init" THEN io.at
                ELSE IF io.kind \in {"misaligned", "page_aligned"}
                        /\ LowBitsSet(pa(io.at), alignment_log2)
                THEN io.at + 1
                ELSE num
        bufs == [i \in 1..n_ok |-> pa(i - 1)]
        ret == IF io.kind = "chunk_init" THEN io.err
               ELSE IF \E i \in DOMAIN bufs :
                          LowBitsSet(bufs[i], alignment_log2)
               THEN ZX_ERR_INTERNAL
               ELSE ZX_OK
    IN  [ret |-> ret, acq |-> bufs,
         slot |-> [ZeroSlot EXCEPT !.chunks = bufs, !.num_chunks = n_ok]]

\* --------------------------------------------- x86_pt_alloc_buffer1
\* The chunk loop: the slot after the chunks were set up, or the error.
AllocChunks(d, num, order, io) ==
    LET alignment_log2 == PAGE_SIZE_SHIFT + order
        pa(i) == IF io.kind = "misaligned" /\ io.at = i
                 THEN BadChunkPa(d, i)
                 ELSE IF io.kind = "page_aligned" /\ io.at = i
                 THEN PageChunkPa(d, i)
                 ELSE ChunkPa(d, i)
        \* the loop returns at the chunk that fails or is misaligned
        n_ok == IF io.kind = "chunk_init" THEN io.at
                ELSE IF io.kind \in {"misaligned", "page_aligned"}
                        /\ LowBitsSet(pa(io.at), alignment_log2)
                THEN io.at + 1
                ELSE num
        bufs == [i \in 1..n_ok |-> pa(i - 1)]
        ret == IF io.kind = "chunk_init" THEN io.err
               ELSE IF \E i \in DOMAIN bufs :
                          LowBitsSet(bufs[i], alignment_log2)
               THEN ZX_ERR_INTERNAL
               ELSE ZX_OK
    IN  [ret |-> ret, acq |-> bufs,
         slot |-> [ZeroSlot EXCEPT !.chunks = bufs, !.num_chunks = n_ok]]

\* x86_pt_alloc_buffer1 without the test of output_topa_multi.
x86_pt_alloc_buffer1_multi(caps, d, num, order, is_circular, io) ==
    IF io.kind = "calloc_chunks"
    THEN [ret |-> ZX_ERR_NO_MEMORY, acq |-> << >>, slot |-> ZeroSlot]
    ELSE
    LET c == AllocChunks(d, num, order, io)
        s1 == [c.slot EXCEPT !.chunk_order = order,
                             !.is_circular = is_circular]
        entry_count == compute_topa_entry_count(s1.num_chunks)
        table_count == (entry_count + IPT_TOPA_MAX_TABLE_ENTRIES - 1)
                           \div IPT_TOPA_MAX_TABLE_ENTRIES
        t_ok == IF io.kind = "table_init" THEN io.at ELSE table_count
        tabs == [t \in 1..t_ok |-> TablePa(d, t - 1)]
        s2 == [s1 EXCEPT !.topas = tabs, !.num_tables = t_ok]
    IN  IF c.ret # ZX_OK THEN c
        ELSE IF entry_count < 2
        THEN [ret |-> ZX_ERR_INVALID_ARGS, acq |-> c.acq, slot |-> s1]
        ELSE IF io.kind = "calloc_topas"
        THEN [ret |-> ZX_ERR_NO_MEMORY, acq |-> c.acq, slot |-> s1]
        ELSE IF io.kind = "table_init"
        THEN [ret |-> ZX_ERR_NO_MEMORY, acq |-> c.acq \o tabs, slot |-> s2]
        ELSE [ret |-> ZX_OK, acq |-> c.acq \o tabs, slot |-> s2]

x86_pt_alloc_buffer1(caps, d, num, order, is_circular, io) ==
    IF io.kind = "calloc_chunks"
    THEN [ret |-> ZX_ERR_NO_MEMORY, acq |-> << >>, slot |-> ZeroSlot]
    ELSE
    LET c == AllocChunks(d, num, order, io)
        s1 == [c.slot EXCEPT !.chunk_order = order,
                             !.is_circular = is_circular]
        entry_count == compute_topa_entry_count(s1.num_chunks)
        table_count == (entry_count + IPT_TOPA_MAX_TABLE_ENTRIES - 1)
                           \div IPT_TOPA_MAX_TABLE_ENTRIES
        t_ok == IF io.kind = "table_init" THEN io.at ELSE table_count
        tabs == [t \in 1..t_ok |-> TablePa(d, t - 1)]
        s2 == [s1 EXCEPT !.topas = tabs, !.num_tables = t_ok]
    IN  IF c.ret # ZX_OK THEN c
        ELSE IF entry_count < 2
        THEN [ret |-> ZX_ERR_INVALID_ARGS, acq |-> c.acq, slot |-> s1]
        ELSE IF ~caps.output_topa_multi /\ entry_count > 2
        THEN [ret |-> ZX_ERR_NOT_SUPPORTED, acq |-> c.acq, slot |-> s1]
        ELSE IF io.kind = "calloc_topas"
        THEN [ret |-> ZX_ERR_NO_MEMORY, acq |-> c.acq, slot |-> s1]
        ELSE IF io.kind = "table_init"
        THEN [ret |-> ZX_ERR_NO_MEMORY, acq |-> c.acq \o tabs, slot |-> s2]
        ELSE [ret |-> ZX_OK, acq |-> c.acq \o tabs, slot |-> s2]

\* The io_buffers released, the tables first.
FreeBuffer1ReleasedTopas(s) ==
    (IF s.topas # NULL THEN SubSeq(s.topas, 1, s.num_tables) ELSE << >>)
    \o (IF s.chunks # NULL THEN SubSeq(s.chunks, 1, s.num_chunks) ELSE << >>)

\* ---------------------------------------------- x86_pt_free_buffer1
\* The io_buffers released, in the order of the calls.
FreeBuffer1Released(s) ==
    (IF s.chunks # NULL THEN SubSeq(s.chunks, 1, s.num_chunks) ELSE << >>)
    \o (IF s.topas # NULL THEN SubSeq(s.topas, 1, s.num_tables) ELSE << >>)

x86_pt_free_buffer1(s) ==
    [s EXCEPT !.chunks = NULL, !.topas = NULL, !.allocated = FALSE]

\* ----------------------------------------------- zx_mtrace_control
\* What the kernel answers to one privileged call.
MtraceErrs == {ZX_ERR_ACCESS_DENIED, ZX_ERR_BAD_STATE}
MtraceResults == {ZX_OK} \cup MtraceErrs

Call(action, descriptor, payload, status) ==
    [status |-> status, action |-> action, descriptor |-> descriptor,
     payload |-> payload]

\* A 64-bit value as its two 32-bit halves.
U64(hi, lo) == [hi |-> hi, lo |-> lo]

\* The register block MTRACE_INSNTRACE_GET_TRACE_DATA hands back for a
\* slot: whatever the hardware left in the MSRs.  Representatives:
\*   ran    tracing stopped half a page into the first entry of the table
\*          it was started on
\*   error  the hardware flagged an operational error and the registers
\*          read as zero
\*   last   tracing stopped inside the region of the last data entry
\*   full   the region of the last data entry was filled to its end
\*   next   the hardware moved on to the entry after the last data entry
SnapKinds == {"ran", "error"}
\* <<table, entry>> of the ToPA entry that describes chunk i.
ChunkEntry(i) ==
    <<i \div (IPT_TOPA_MAX_TABLE_ENTRIES - 1),
      i % (IPT_TOPA_MAX_TABLE_ENTRIES - 1)>>
\* Registers of a trace that stopped `offset` bytes into entry `entry` of
\* table `table` (the low 7 bits of output_mask_ptrs read as ones).
HwStoppedAt(s, table, entry, offset) ==
    [ctl |-> CtlOr(s.ctl, {"TOPA"}), status |-> 0,
     output_base |-> s.topas[table + 1],
     output_mask_ptrs |-> U64(offset, entry * 2^7 + 127),
     cr3_match |-> s.cr3_match, addr_ranges |-> s.addr_ranges]
HwSnapshot(s, kind) ==
    LET last == ChunkEntry(s.num_chunks - 1)
        region == 2^(s.chunk_order + PAGE_SIZE_SHIFT)
    IN  CASE kind = "ran" ->
               [ctl |-> CtlOr(s.ctl, {"TOPA"}), status |-> 0,
                output_base |-> s.output_base,
                output_mask_ptrs |-> U64(PAGE_SIZE \div 2, 0),
                cr3_match |-> s.cr3_match, addr_ranges |-> s.addr_ranges]
          [] kind = "last" ->
               HwStoppedAt(s, last[1], last[2], region \div 2)
          [] kind = "full" -> HwStoppedAt(s, last[1], last[2], region)
          [] kind = "next" -> HwStoppedAt(s, last[1], last[2] + 1, 0)
          [] OTHER ->
               [ctl |-> CtlZero, status |-> 2^4, output_base |-> 0,
                output_mask_ptrs |-> U64(0, 0), cr3_match |-> 0,
                addr_ranges |-> ZeroAddrRanges]

\* settable_ctl_mask with CR3_FILTER settable on every cpu.
SettableCtlMaskCr3(caps) ==
    {"OS_ALLOWED", "USER_ALLOWED", "TSC_EN", "DIS_RETC", "BRANCH_EN"}
    \cup (IF caps.ptwrite THEN {"PTW_EN", "FUP_ON_PTW"} ELSE {})
    \cup {"CR3_FILTER"}
    \cup (IF caps.mtc THEN {"MTC_EN", "MTC_FREQ"} ELSE {})
    \cup (IF caps.power_events THEN {"POWER_EVENT_EN"} ELSE {})
    \cup (IF caps.ip_filtering /\ caps.num_addr_ranges >= 1
          THEN {"ADDR0"} ELSE {})
    \cup (IF caps.ip_filtering /\ caps.num_addr_ranges >= 2
          THEN {"ADDR1"} ELSE {})
    \cup (IF caps.ip_filtering /\ caps.num_addr_ranges >= 3
          THEN {"ADDR2"} ELSE {})
    \cup (IF caps.ip_filtering /\ caps.num_addr_ranges >= 4
          THEN {"ADDR3"} ELSE {})
    \cup (IF caps.psb THEN {"CYC_EN", "PSB_FREQ", "CYC_THRESH"} ELSE {})

\* --------------------------------------------- x86_pt_alloc_buffer
SettableCtlMask(caps) ==
    {"OS_ALLOWED", "USER_ALLOWED", "TSC_EN", "DIS_RETC", "BRANCH_EN"}
    \cup (IF caps.ptwrite THEN {"PTW_EN", "FUP_ON_PTW"} ELSE {})
    \cup (IF caps.cr3_filtering THEN {"CR3_FILTER"} ELSE {})
    \cup (IF caps.mtc THEN {"MTC_EN", "MTC_FREQ"} ELSE {})
    \cup (IF caps.power_events THEN {"POWER_EVENT_EN"} ELSE {})
    \cup (IF caps.ip_filtering /\ caps.num_addr_ranges >= 1
          THEN {"ADDR0"} ELSE {})
    \cup (IF caps.ip_filtering /\ caps.num_addr_ranges >= 2
          THEN {"ADDR1"} ELSE {})
    \cup (IF caps.ip_filtering /\ caps.num_addr_ranges >= 3
          THEN {"ADDR2"} ELSE {})
    \cup (IF caps.ip_filtering /\ caps.num_addr_ranges >= 4
          THEN {"ADDR3"} ELSE {})
    \cup (IF caps.psb THEN {"CYC_EN", "PSB_FREQ", "CYC_THRESH"} ELSE {})

\* The sub-field test without its exemption of zero.
BadSubFieldZero(value, hw_mask) == value \notin hw_mask

\* value != 0 && ((1 << value) & hw_mask) == 0
BadSubField(value, hw_mask) == value # 0 /\ value \notin hw_mask

\* The checks made before a slot is looked for: ZX_OK or the error.
ValidateBufferConfig(caps, config) ==
    LET chunk_pages == 2^config.chunk_order
        nr_pages == config.num_chunks * chunk_pages
        total_per_trace == nr_pages * PAGE_SIZE
    IN  IF config.num_chunks = 0 \/ config.num_chunks > MAX_NUM_CHUNKS
        THEN ZX_ERR_INVALID_ARGS
        ELSE IF config.chunk_order > MAX_CHUNK_ORDER
        THEN ZX_ERR_INVALID_ARGS
        ELSE IF total_per_trace > MAX_PER_TRACE_SPACE
        THEN ZX_ERR_INVALID_ARGS
        ELSE IF CtlOutside(config.ctl, SettableCtlMask(caps))
        THEN ZX_ERR_INVALID_ARGS
        ELSE IF BadSubField(CtlGet(config.ctl, "MTC_FREQ"), caps.mtc_freq_mask)
        THEN ZX_ERR_INVALID_ARGS
        ELSE IF BadSubField(CtlGet(config.ctl, "CYC_THRESH"), caps.cyc_thresh_mask)
        THEN ZX_ERR_INVALID_ARGS
        ELSE IF BadSubField(CtlGet(config.ctl, "PSB_FREQ"), caps.psb_freq_mask)
        THEN ZX_ERR_INVALID_ARGS
        ELSE ZX_OK

\* FindUnallocated searching from the last slot down.
FindUnallocatedLast(d) ==
    LET free == {i \in 0..(d.num_traces - 1) :
                    ~d.per_trace_state[i + 1].allocated}
    IN  IF free = {} THEN d.num_traces
        ELSE CHOOSE i \in free : \A j \in free : i >= j

\* The first descriptor whose slot is not allocated, num_traces if none.
FindUnallocated(d) ==
    LET free == {i \in 0..(d.num_traces - 1) :
                    ~d.per_trace_state[i + 1].allocated}
    IN  IF free = {} THEN d.num_traces
        ELSE CHOOSE i \in free : \A j \in free : i <= j

\* x86_pt_alloc_buffer without the call of x86_pt_free_buffer1 on failure.
x86_pt_alloc_buffer_keep(caps, d, config, io) ==
    LET v == ValidateBufferConfig(caps, config)
        descriptor == FindUnallocated(d)
        a == x86_pt_alloc_buffer1(caps, descriptor, config.num_chunks,
                                  config.chunk_order, config.is_circular, io)
        done == [a.slot EXCEPT
                    !.ctl = config.ctl, !.status = 0,
                    !.output_base = a.slot.topas[1],
                    !.output_mask_ptrs = U64(0, 0),
                    !.cr3_match = config.cr3_match,
                    !.addr_ranges = config.addr_ranges,
                    !.allocated = TRUE]
        put(s) == [d EXCEPT !.per_trace_state[descriptor + 1] = s]
    IN  IF v # ZX_OK THEN Res(d, v)
        ELSE IF descriptor = d.num_traces THEN Res(d, ZX_ERR_NO_RESOURCES)
        ELSE IF a.ret # ZX_OK
        THEN [Res(put(a.slot), a.ret) EXCEPT !.acq = a.acq]
        ELSE [Res(put(done), ZX_OK) EXCEPT
                !.acq = a.acq, !.reply = <<descriptor>>]

x86_pt_alloc_buffer(caps, d, config, io) ==
    LET v == ValidateBufferConfig(caps, config)
        descriptor == FindUnallocated(d)
        a == x86_pt_alloc_buffer1(caps, descriptor, config.num_chunks,
                                  config.chunk_order, config.is_circular, io)
        failed == x86_pt_free_buffer1(a.slot)
        done == [a.slot EXCEPT
                    !.ctl = config.ctl, !.status = 0,
                    !.output_base = a.slot.topas[1],
                    !.output_mask_ptrs = U64(0, 0),
                    !.cr3_match = config.cr3_match,
                    !.addr_ranges = config.addr_ranges,
                    !.allocated = TRUE]
        put(s) == [d EXCEPT !.per_trace_state[descriptor + 1] = s]
    IN  IF v # ZX_OK THEN Res(d, v)
        ELSE IF descriptor = d.num_traces THEN Res(d, ZX_ERR_NO_RESOURCES)
        ELSE IF a.ret # ZX_OK
        THEN [Res(put(failed), a.ret) EXCEPT
                !.acq = a.acq, !.rel = FreeBuffer1Released(a.slot)]
        ELSE [Res(put(done), ZX_OK) EXCEPT
                !.acq = a.acq, !.reply = <<descriptor>>]

\* x86_pt_free_buffer without the test of per_trace->assigned.
x86_pt_free_buffer_any(d, descriptor) ==
    IF d.active THEN Res(d, ZX_ERR_BAD_STATE)
    ELSE IF descriptor >= d.num_traces THEN Res(d, ZX_ERR_INVALID_ARGS)
    ELSE LET per_trace == d.per_trace_state[descriptor + 1]
         IN  IF ~per_trace.allocated THEN Res(d, ZX_ERR_INVALID_ARGS)
             ELSE [Res([d EXCEPT !.per_trace_state[descriptor + 1] =
                                    x86_pt_free_buffer1(per_trace)], ZX_OK)
                   EXCEPT !.rel = FreeBuffer1Released(per_trace)]

\* ---------------------------------------------- x86_pt_free_buffer
x86_pt_free_buffer(d, descriptor) ==
    IF d.active THEN Res(d, ZX_ERR_BAD_STATE)
    ELSE IF descriptor >= d.num_traces THEN Res(d, ZX_ERR_INVALID_ARGS)
    ELSE LET per_trace == d.per_trace_state[descriptor + 1]
         IN  IF ~per_trace.allocated THEN Res(d, ZX_ERR_INVALID_ARGS)
             ELSE IF per_trace.assigned THEN Res(d, ZX_ERR_BAD_STATE)
             ELSE [Res([d EXCEPT !.per_trace_state[descriptor + 1] =
                                    x86_pt_free_buffer1(per_trace)], ZX_OK)
                   EXCEPT !.rel = FreeBuffer1Released(per_trace)]

\* The register block of a slot with TRACE_EN added and TOPA left out.
StagedRegsNoTopa(s) ==
    [SlotRegs(s) EXCEPT !.ctl = CtlOr(s.ctl, {"TRACE_EN"})]

\* ------------------------------------------ x86_pt_stage_trace_data
\* The register block staged for a slot.
StagedRegs(s) ==
    [SlotRegs(s) EXCEPT !.ctl = CtlOr(s.ctl, {"TOPA", "TRACE_EN"})]

\* x86_pt_get_trace_data without the copy of output_mask_ptrs.
x86_pt_get_trace_data_partial(s, regs) ==
    [s EXCEPT !.ctl = regs.ctl, !.status = regs.status,
              !.output_base = regs.output_base,
              !.cr3_match = regs.cr3_match,
              !.addr_ranges = regs.addr_ranges]

\* -------------------------------------------- x86_pt_get_trace_data
\* The slot after the register block regs was copied back into it.
x86_pt_get_trace_data(s, regs) ==
    [s EXCEPT !.ctl = regs.ctl, !.status = regs.status,
              !.output_base = regs.output_base,
              !.output_mask_ptrs = regs.output_mask_ptrs,
              !.cr3_match = regs.cr3_match,
              !.addr_ranges = regs.addr_ranges]

\* ------------------------------------------------- request shapes
\* How cmdlen and replymax of an ioctl compare with what the operation
\* expects: both right, cmdlen wrong, or replymax wrong (nonzero where no
\* reply is expected, too small otherwise).
ReqShapes == {"ok", "cmdlen", "replymax"}
CmdlenOk(sz) == sz # "cmdlen"
ReplymaxOk(sz) == sz # "replymax"

\* ipt_alloc_trace keeping the vector when ALLOC_TRACE is refused.
ipt_alloc_trace_noundo(caps, d, sz, config, calloc_ok, st) ==
    LET d1 == [d EXCEPT !.num_traces = config.num_traces]
        d2 == [d1 EXCEPT !.per_trace_state =
                            [i \in 1..config.num_traces |-> ZeroSlot]]
        call == Call("ALLOC_TRACE", 0, config, st)
        internal_mode == IF config.mode = IPT_MODE_CPUS
                         THEN IPT_TRACE_CPUS ELSE IPT_TRACE_THREADS
    IN  IF ~caps.supported THEN Res(d, ZX_ERR_NOT_SUPPORTED)
        ELSE IF ~caps.output_topa THEN Res(d, ZX_ERR_NOT_SUPPORTED)
        ELSE IF d.per_trace_state # NULL THEN Res(d, ZX_ERR_BAD_STATE)
        ELSE IF ~CmdlenOk(sz) THEN Res(d, ZX_ERR_INVALID_ARGS)
        ELSE IF config.mode = IPT_MODE_THREADS
        THEN Res(d, ZX_ERR_NOT_SUPPORTED)
        ELSE IF config.mode \notin {IPT_MODE_CPUS, IPT_MODE_THREADS}
        THEN Res(d, ZX_ERR_INVALID_ARGS)
        ELSE IF config.num_traces > IPT_MAX_NUM_TRACES
        THEN Res(d, ZX_ERR_INVALID_ARGS)
        ELSE IF config.mode = IPT_MODE_CPUS /\ config.num_traces # NumCpus
        THEN Res(d, ZX_ERR_INVALID_ARGS)
        ELSE IF ~calloc_ok THEN Res(d1, ZX_ERR_NO_MEMORY)
        ELSE IF st # ZX_OK
        THEN [Res(d2, st) EXCEPT !.calls = <<call>>]
        ELSE [Res([d2 EXCEPT !.mode = internal_mode], ZX_OK)
              EXCEPT !.calls = <<call>>]

\* ipt_alloc_trace without the rejection of IPT_MODE_THREADS.
ipt_alloc_trace_threads(caps, d, sz, config, calloc_ok, st) ==
    LET d1 == [d EXCEPT !.num_traces = config.num_traces]
        d2 == [d1 EXCEPT !.per_trace_state =
                            [i \in 1..config.num_traces |-> ZeroSlot]]
        call == Call("ALLOC_TRACE", 0, config, st)
        internal_mode == IF config.mode = IPT_MODE_CPUS
                         THEN IPT_TRACE_CPUS ELSE IPT_TRACE_THREADS
    IN  IF ~caps.supported THEN Res(d, ZX_ERR_NOT_SUPPORTED)
        ELSE IF ~caps.output_topa THEN Res(d, ZX_ERR_NOT_SUPPORTED)
        ELSE IF d.per_trace_state # NULL THEN Res(d, ZX_ERR_BAD_STATE)
        ELSE IF ~CmdlenOk(sz) THEN Res(d, ZX_ERR_INVALID_ARGS)
        ELSE IF config.mode \notin {IPT_MODE_CPUS, IPT_MODE_THREADS}
        THEN Res(d, ZX_ERR_INVALID_ARGS)
        ELSE IF config.num_traces > IPT_MAX_NUM_TRACES
        THEN Res(d, ZX_ERR_INVALID_ARGS)
        ELSE IF config.mode = IPT_MODE_CPUS /\ config.num_traces # NumCpus
        THEN Res(d, ZX_ERR_INVALID_ARGS)
        ELSE IF ~calloc_ok THEN Res(d1, ZX_ERR_NO_MEMORY)
        ELSE IF st # ZX_OK
        THEN [Res(d1, st) EXCEPT !.calls = <<call>>]
        ELSE [Res([d2 EXCEPT !.mode = internal_mode], ZX_OK)
              EXCEPT !.calls = <<call>>]

\* ------------------------------------------------- ipt_alloc_trace
\* config: [mode, num_traces]; calloc_ok: whether calloc of the trace
\* vector succeeds; st: the kernel's answer to ALLOC_TRACE.
ipt_alloc_trace(caps, d, sz, config, calloc_ok, st) ==
    LET d1 == [d EXCEPT !.num_traces = config.num_traces]
        d2 == [d1 EXCEPT !.per_trace_state =
                            [i \in 1..config.num_traces |-> ZeroSlot]]
        call == Call("ALLOC_TRACE", 0, config, st)
        internal_mode == IF config.mode = IPT_MODE_CPUS
                         THEN IPT_TRACE_CPUS ELSE IPT_TRACE_THREADS
    IN  IF ~caps.supported THEN Res(d, ZX_ERR_NOT_SUPPORTED)
        ELSE IF ~caps.output_topa THEN Res(d, ZX_ERR_NOT_SUPPORTED)
        ELSE IF d.per_trace_state # NULL THEN Res(d, ZX_ERR_BAD_STATE)
        ELSE IF ~CmdlenOk(sz) THEN Res(d, ZX_ERR_INVALID_ARGS)
        ELSE IF config.mode = IPT_MODE_THREADS
        THEN Res(d, ZX_ERR_NOT_SUPPORTED)
        ELSE IF config.mode \notin {IPT_MODE_CPUS, IPT_MODE_THREADS}
        THEN Res(d, ZX_ERR_INVALID_ARGS)
        ELSE IF config.num_traces > IPT_MAX_NUM_TRACES
        THEN Res(d, ZX_ERR_INVALID_ARGS)
        ELSE IF config.mode = IPT_MODE_CPUS /\ config.num_traces # NumCpus
        THEN Res(d, ZX_ERR_INVALID_ARGS)
        ELSE IF ~calloc_ok THEN Res(d1, ZX_ERR_NO_MEMORY)
        ELSE IF st # ZX_OK
        THEN [Res(d1, st) EXCEPT !.calls = <<call>>]
        ELSE [Res([d2 EXCEPT !.mode = internal_mode], ZX_OK)
              EXCEPT !.calls = <<call>>]

\* ipt_free_trace without the loop that looks for an assigned slot.
ipt_free_trace_forced(d, st) ==
    LET slots == d.per_trace_state
        idx == 1..d.num_traces
        freed == [i \in idx |-> IF slots[i].allocated
                                THEN x86_pt_free_buffer1(slots[i])
                                ELSE slots[i]]
        RECURSIVE released(_)
        released(i) ==
            IF i > d.num_traces THEN << >>
            ELSE (IF slots[i].allocated THEN FreeBuffer1Released(slots[i])
                  ELSE << >>) \o released(i + 1)
        call == Call("FREE_TRACE", 0, NULL, st)
    IN  IF d.active THEN Res(d, ZX_ERR_BAD_STATE)
        ELSE IF st # ZX_OK
        THEN [Res([d EXCEPT !.per_trace_state = freed], ZX_OK)
              EXCEPT !.calls = <<call>>, !.rel = released(1)]
        ELSE [Res([d EXCEPT !.per_trace_state = NULL], ZX_OK)
              EXCEPT !.calls = <<call>>, !.rel = released(1)]

\* -------------------------------------------------- ipt_free_trace
\* st: the kernel's answer to FREE_TRACE.  The vector is present (the
\* ioctl worker checked).
ipt_free_trace(d, st) ==
    LET slots == d.per_trace_state
        idx == 1..d.num_traces
        freed == [i \in idx |-> IF slots[i].allocated
                                THEN x86_pt_free_buffer1(slots[i])
                                ELSE slots[i]]
        RECURSIVE released(_)
        released(i) ==
            IF i > d.num_traces THEN << >>
            ELSE (IF slots[i].allocated THEN FreeBuffer1Released(slots[i])
                  ELSE << >>) \o released(i + 1)
        call == Call("FREE_TRACE", 0, NULL, st)
    IN  IF d.active THEN Res(d, ZX_ERR_BAD_STATE)
        ELSE IF \E i \in idx : slots[i].assigned
        THEN Res(d, ZX_ERR_BAD_STATE)
        ELSE IF st # ZX_OK
        THEN [Res([d EXCEPT !.per_trace_state = freed], ZX_OK)
              EXCEPT !.calls = <<call>>, !.rel = released(1)]
        ELSE [Res([d EXCEPT !.per_trace_state = NULL], ZX_OK)
              EXCEPT !.calls = <<call>>, !.rel = released(1)]

\* -------------------------------------------- ipt_get_trace_config
\* config.num_traces is never assigned before the reply is copied out:
\* the reply carries whatever the stack held (uninit).
ipt_get_trace_config(d, sz, uninit) ==
    IF ~ReplymaxOk(sz) THEN Res(d, ZX_ERR_BUFFER_TOO_SMALL)
    ELSE [Res(d, ZX_OK) EXCEPT
            !.reply = [mode |-> IF d.mode = IPT_TRACE_CPUS
                                THEN IPT_MODE_CPUS ELSE IPT_MODE_THREADS,
                       num_traces |-> uninit]]

\* ------------------------------------------------ ipt_alloc_buffer
ipt_alloc_buffer(caps, d, sz, config, io) ==
    IF ~CmdlenOk(sz) THEN Res(d, ZX_ERR_INVALID_ARGS)
    ELSE IF ~ReplymaxOk(sz) THEN Res(d, ZX_ERR_BUFFER_TOO_SMALL)
    ELSE x86_pt_alloc_buffer(caps, d, config, io)

\* -------- ipt_assign_thread_buffer, ipt_release_thread_buffer
ipt_assign_thread_buffer(d, sz) ==
    IF ~CmdlenOk(sz) THEN Res(d, ZX_ERR_INVALID_ARGS)
    ELSE Res(d, ZX_ERR_NOT_SUPPORTED)

ipt_release_thread_buffer(d, sz) ==
    IF ~CmdlenOk(sz) THEN Res(d, ZX_ERR_INVALID_ARGS)
    ELSE Res(d, ZX_ERR_NOT_SUPPORTED)

\* ------------------------------------------- ipt_get_buffer_config
ipt_get_buffer_config(d, sz, descriptor) ==
    IF ~CmdlenOk(sz) THEN Res(d, ZX_ERR_INVALID_ARGS)
    ELSE IF ~ReplymaxOk(sz) THEN Res(d, ZX_ERR_BUFFER_TOO_SMALL)
    ELSE IF descriptor >= d.num_traces THEN Res(d, ZX_ERR_INVALID_ARGS)
    ELSE LET per_trace == d.per_trace_state[descriptor + 1]
         IN  IF ~per_trace.allocated THEN Res(d, ZX_ERR_INVALID_ARGS)
             ELSE [Res(d, ZX_OK) EXCEPT
                     !.reply = [ctl |-> per_trace.ctl,
                                num_chunks |-> per_trace.num_chunks,
                                chunk_order |-> per_trace.chunk_order,
                                is_circular |-> per_trace.is_circular,
                                cr3_match |-> per_trace.cr3_match,
                                addr_ranges |-> per_trace.addr_ranges]]

\* ------------------------------------------------------- make_topa
\* A ToPA entry word as its fields; a table is a function from
\* 0..IPT_TOPA_MAX_TABLE_ENTRIES-1 to entries, zero-filled when allocated.
ZeroEntry == [addr |-> 0, size |-> 0, end |-> FALSE, stop |-> FALSE]
\* IPT_TOPA_ENTRY_PHYS_ADDR(pa) | IPT_TOPA_ENTRY_SIZE(size_log2)
DataEntry(pa, size_log2) ==
    [addr |-> pa, size |-> size_log2, end |-> FALSE, stop |-> FALSE]
\* IPT_TOPA_ENTRY_PHYS_ADDR(pa) | IPT_TOPA_ENTRY_END
EndEntry(pa) == [addr |-> pa, size |-> 0, end |-> TRUE, stop |-> FALSE]
IPT_TOPA_ENTRY_EXTRACT_SIZE(e) == e.size
ZeroTable == [e \in 0..(IPT_TOPA_MAX_TABLE_ENTRIES - 1) |-> ZeroEntry]

\* TopaFill moving to the next table only after the last slot was used.
RECURSIVE TopaFillNoRoom(_, _, _)
TopaFillNoRoom(s, i, st) ==
    IF i >= s.num_chunks THEN st
    ELSE
    LET val == DataEntry(s.chunks[i + 1], s.chunk_order + PAGE_SIZE_SHIFT)
        inside == st.curr_table < s.num_tables
        tabs == IF inside
                THEN [st.tables EXCEPT
                        ![st.curr_table + 1][st.curr_idx] = val]
                ELSE st.tables
        wrap == st.curr_idx >= IPT_TOPA_MAX_TABLE_ENTRIES - 1
    IN  TopaFillNoRoom(s, i + 1,
            [curr_table |-> IF wrap THEN st.curr_table + 1
                            ELSE st.curr_table,
             tables |-> tabs,
             curr_idx |-> IF wrap THEN 0 ELSE st.curr_idx + 1,
             last |-> <<st.curr_table, st.curr_idx>>,
             oob |-> st.oob \/ ~inside])

\* The first loop of make_topa from chunk i on: st is
\* [tables, curr_table, curr_idx, last (<<table, idx>> of the last data
\* entry), oob (a write fell outside the allocated tables)].
RECURSIVE TopaFill(_, _, _)
TopaFill(s, i, st) ==
    IF i >= s.num_chunks THEN st
    ELSE
    LET val == DataEntry(s.chunks[i + 1], s.chunk_order + PAGE_SIZE_SHIFT)
        inside == st.curr_table < s.num_tables
        tabs == IF inside
                THEN [st.tables EXCEPT
                        ![st.curr_table + 1][st.curr_idx] = val]
                ELSE st.tables
        wrap == st.curr_idx >= IPT_TOPA_MAX_TABLE_ENTRIES - 2
    IN  TopaFill(s, i + 1,
            [curr_table |-> IF wrap THEN st.curr_table + 1
                            ELSE st.curr_table,
             tables |-> tabs,
             curr_idx |-> IF wrap THEN 0 ELSE st.curr_idx + 1,
             last |-> <<st.curr_table, st.curr_idx>>,
             oob |-> st.oob \/ ~inside])

\* make_topa linking every completed table to the first one.
make_topa_first(s) ==
    LET f == TopaFill(s, 0,
                [curr_table |-> 0,
                 tables |-> [t \in 1..s.num_tables |-> ZeroTable],
                 curr_idx |-> 0, last |-> <<0, 0>>, oob |-> FALSE])
        next_pa(i) == s.topas[1]
        \* END entries of the completed tables
        t1 == [t \in 1..s.num_tables |->
                 IF t - 1 < f.curr_table
                 THEN [f.tables[t] EXCEPT
                         ![IPT_TOPA_MAX_TABLE_ENTRIES - 1] =
                             EndEntry(next_pa(t - 1))]
                 ELSE f.tables[t]]
        \* END entry of a last table that is not full
        t2 == IF f.curr_table < s.num_tables
              THEN [t1 EXCEPT ![f.curr_table + 1][f.curr_idx] =
                                  EndEntry(s.topas[1])]
              ELSE t1
        lt == f.last[1] + 1
        li == f.last[2]
        t3 == IF ~s.is_circular /\ lt <= s.num_tables
              THEN [t2 EXCEPT ![lt][li].stop = TRUE]
              ELSE t2
    IN  [curr_table |-> f.curr_table, tables |-> t3, curr_idx |-> f.curr_idx,
         oob |-> f.oob]

\* make_topa setting STOP whether or not the buffer is circular.
make_topa_stop(s) ==
    LET f == TopaFill(s, 0,
                [curr_table |-> 0,
                 tables |-> [t \in 1..s.num_tables |-> ZeroTable],
                 curr_idx |-> 0, last |-> <<0, 0>>, oob |-> FALSE])
        next_pa(i) == IF i = s.num_tables - 1 THEN s.topas[1]
                      ELSE s.topas[i + 2]
        \* END entries of the completed tables
        t1 == [t \in 1..s.num_tables |->
                 IF t - 1 < f.curr_table
                 THEN [f.tables[t] EXCEPT
                         ![IPT_TOPA_MAX_TABLE_ENTRIES - 1] =
                             EndEntry(next_pa(t - 1))]
                 ELSE f.tables[t]]
        \* END entry of a last table that is not full
        t2 == IF f.curr_table < s.num_tables
              THEN [t1 EXCEPT ![f.curr_table + 1][f.curr_idx] =
                                  EndEntry(s.topas[1])]
              ELSE t1
        lt == f.last[1] + 1
        li == f.last[2]
        t3 == IF lt <= s.num_tables
              THEN [t2 EXCEPT ![lt][li].stop = TRUE]
              ELSE t2
    IN  [curr_table |-> f.curr_table, tables |-> t3, curr_idx |-> f.curr_idx,
         oob |-> f.oob]

\* The tables make_topa leaves for an allocated slot.
make_topa(s) ==
    LET f == TopaFill(s, 0,
                [curr_table |-> 0,
                 tables |-> [t \in 1..s.num_tables |-> ZeroTable],
                 curr_idx |-> 0, last |-> <<0, 0>>, oob |-> FALSE])
        next_pa(i) == IF i = s.num_tables - 1 THEN s.topas[1]
                      ELSE s.topas[i + 2]
        \* END entries of the completed tables
        t1 == [t \in 1..s.num_tables |->
                 IF t - 1 < f.curr_table
                 THEN [f.tables[t] EXCEPT
                         ![IPT_TOPA_MAX_TABLE_ENTRIES - 1] =
                             EndEntry(next_pa(t - 1))]
                 ELSE f.tables[t]]
        \* END entry of a last table that is not full
        t2 == IF f.curr_table < s.num_tables
              THEN [t1 EXCEPT ![f.curr_table + 1][f.curr_idx] =
                                  EndEntry(s.topas[1])]
              ELSE t1
        lt == f.last[1] + 1
        li == f.last[2]
        t3 == IF ~s.is_circular /\ lt <= s.num_tables
              THEN [t2 EXCEPT ![lt][li].stop = TRUE]
              ELSE t2
    IN  [curr_table |-> f.curr_table, tables |-> t3, curr_idx |-> f.curr_idx,
         oob |-> f.oob]

\* The walk adding the size of an entry before it tests whether tracing
\* stopped inside it.
RECURSIVE CaptureWalkLate(_, _, _, _, _)
CaptureWalkLate(s, tabs, table, entry, total_size) ==
    LET curr_table_paddr == s.output_base
        curr_table_entry_idx == s.output_mask_ptrs.lo \div 2^7
        curr_entry_offset == s.output_mask_ptrs.hi
    IN  IF table >= s.num_tables THEN 0
        ELSE IF entry >= IPT_TOPA_MAX_TABLE_ENTRIES - 1
        THEN CaptureWalkLate(s, tabs, table + 1, 0, total_size)
        ELSE LET next_size ==
                    total_size
                    + 2^IPT_TOPA_ENTRY_EXTRACT_SIZE(tabs[table + 1][entry])
             IN  IF s.topas[table + 1] = curr_table_paddr
                    /\ entry >= curr_table_entry_idx
                 THEN next_size + curr_entry_offset
                 ELSE CaptureWalkLate(s, tabs, table, entry + 1, next_size)

\* -------------------------------------------- compute_capture_size
RECURSIVE CaptureWalk(_, _, _, _, _)
CaptureWalk(s, tabs, table, entry, total_size) ==
    LET curr_table_paddr == s.output_base
        curr_table_entry_idx == s.output_mask_ptrs.lo \div 2^7
        curr_entry_offset == s.output_mask_ptrs.hi
    IN  IF table >= s.num_tables THEN 0
        ELSE IF entry >= IPT_TOPA_MAX_TABLE_ENTRIES - 1
        THEN CaptureWalk(s, tabs, table + 1, 0, total_size)
        ELSE IF s.topas[table + 1] = curr_table_paddr
                /\ entry >= curr_table_entry_idx
        THEN total_size + curr_entry_offset
        ELSE CaptureWalk(s, tabs, table, entry + 1,
                total_size
                + 2^IPT_TOPA_ENTRY_EXTRACT_SIZE(tabs[table + 1][entry]))

compute_capture_size(s) == CaptureWalk(s, make_topa(s).tables, 0, 0, 0)

\* ipt_get_buffer_info without the test of dev->active.
ipt_get_buffer_info_live(d, sz, descriptor) ==
    IF ~CmdlenOk(sz) THEN Res(d, ZX_ERR_INVALID_ARGS)
    ELSE IF ~ReplymaxOk(sz) THEN Res(d, ZX_ERR_BUFFER_TOO_SMALL)
    ELSE IF descriptor >= d.num_traces THEN Res(d, ZX_ERR_INVALID_ARGS)
    ELSE LET per_trace == d.per_trace_state[descriptor + 1]
         IN  IF ~per_trace.allocated THEN Res(d, ZX_ERR_INVALID_ARGS)
             ELSE [Res(d, ZX_OK) EXCEPT
                     !.reply = [capture_end |->
                                   compute_capture_size(per_trace)]]

\* --------------------------------------------- ipt_get_buffer_info
ipt_get_buffer_info(d, sz, descriptor) ==
    IF ~CmdlenOk(sz) THEN Res(d, ZX_ERR_INVALID_ARGS)
    ELSE IF ~ReplymaxOk(sz) THEN Res(d, ZX_ERR_BUFFER_TOO_SMALL)
    ELSE IF d.mode = IPT_TRACE_CPUS /\ d.active
    THEN Res(d, ZX_ERR_BAD_STATE)
    ELSE IF descriptor >= d.num_traces THEN Res(d, ZX_ERR_INVALID_ARGS)
    ELSE LET per_trace == d.per_trace_state[descriptor + 1]
         IN  IF ~per_trace.allocated THEN Res(d, ZX_ERR_INVALID_ARGS)
             ELSE [Res(d, ZX_OK) EXCEPT
                     !.reply = [capture_end |->
                                   compute_capture_size(per_trace)]]

\* -------------------------------------------- ipt_get_chunk_handle
\* allowed_rights with ZX_RIGHT_WRITE among them.
AllowedRightsWrite ==
    {"TRANSFER", "WAIT", "INSPECT", "GET_PROPERTY", "READ", "MAP", "WRITE"}
\* Rights of a zx handle, as the set of their names.
AllowedRights ==
    {"TRANSFER", "WAIT", "INSPECT", "GET_PROPERTY", "READ", "MAP"}
\* The rights io_buffer's vmo handle carries.
VmoRights ==
    {"DUPLICATE", "TRANSFER", "READ", "WRITE", "MAP", "GET_PROPERTY",
     "SET_PROPERTY"}

\* info_st, dup_st: the kernel's answers to zx_object_get_info and
\* zx_handle_duplicate.
ipt_get_chunk_handle(d, sz, descriptor, chunk_num, info_st, dup_st) ==
    IF ~CmdlenOk(sz) THEN Res(d, ZX_ERR_INVALID_ARGS)
    ELSE IF ~ReplymaxOk(sz) THEN Res(d, ZX_ERR_BUFFER_TOO_SMALL)
    ELSE IF descriptor >= d.num_traces THEN Res(d, ZX_ERR_INVALID_ARGS)
    ELSE LET per_trace == d.per_trace_state[descriptor + 1]
         IN  IF ~per_trace.allocated THEN Res(d, ZX_ERR_INVALID_ARGS)
             ELSE IF chunk_num >= per_trace.num_chunks
             THEN Res(d, ZX_ERR_INVALID_ARGS)
             ELSE IF info_st # ZX_OK THEN Res(d, info_st)
             ELSE IF dup_st # ZX_OK THEN Res(d, dup_st)
             ELSE [Res(d, ZX_OK) EXCEPT
                     !.reply = [vmo |-> per_trace.chunks[chunk_num + 1],
                                rights |-> VmoRights \cap AllowedRights]]

\* ------------------------------------------------- ipt_free_buffer
ipt_free_buffer(d, sz, descriptor) ==
    IF ~CmdlenOk(sz) THEN Res(d, ZX_ERR_INVALID_ARGS)
    ELSE x86_pt_free_buffer(d, descriptor)

\* ipt_start recording cpu 0 as the owner of every slot.
ipt_start_owner0(d, stage_fail, stage_err, st) ==
    LET slots == d.per_trace_state
        n == d.num_traces
        staged == IF stage_fail < n THEN stage_fail ELSE n
        after == [i \in 1..n |->
                    IF i - 1 < staged
                    THEN [slots[i] EXCEPT !.owner_cpu = 0,
                                          !.assigned = TRUE]
                    ELSE slots[i]]
        stage_call(cpu) ==
            Call("STAGE_TRACE_DATA", cpu, StagedRegs(slots[cpu + 1]),
                 IF cpu = stage_fail THEN stage_err ELSE ZX_OK)
        stage_calls ==
            [i \in 1..(IF stage_fail < n THEN staged + 1 ELSE n) |->
                stage_call(i - 1)]
        d1 == [d EXCEPT !.per_trace_state = after]
    IN  IF d.active THEN Res(d, ZX_ERR_BAD_STATE)
        ELSE IF d.mode # IPT_TRACE_CPUS THEN Res(d, ZX_ERR_BAD_STATE)
        ELSE IF \E i \in 1..n : ~slots[i].allocated \/ slots[i].assigned
        THEN Res(d, ZX_ERR_BAD_STATE)
        ELSE IF stage_fail < n
        THEN [Res(d1, stage_err) EXCEPT !.calls = stage_calls]
        ELSE IF st # ZX_OK
        THEN [Res(d1, st) EXCEPT
                !.calls = Append(stage_calls, Call("START", 0, NULL, st))]
        ELSE [Res([d1 EXCEPT !.active = TRUE], ZX_OK) EXCEPT
                !.calls = Append(stage_calls, Call("START", 0, NULL, st))]

\* ipt_start without the loop that verifies every slot.
ipt_start_unchecked(d, stage_fail, stage_err, st) ==
    LET slots == d.per_trace_state
        n == d.num_traces
        staged == IF stage_fail < n THEN stage_fail ELSE n
        after == [i \in 1..n |->
                    IF i - 1 < staged
                    THEN [slots[i] EXCEPT !.owner_cpu = i - 1,
                                          !.assigned = TRUE]
                    ELSE slots[i]]
        stage_call(cpu) ==
            Call("STAGE_TRACE_DATA", cpu, StagedRegs(slots[cpu + 1]),
                 IF cpu = stage_fail THEN stage_err ELSE ZX_OK)
        stage_calls ==
            [i \in 1..(IF stage_fail < n THEN staged + 1 ELSE n) |->
                stage_call(i - 1)]
        d1 == [d EXCEPT !.per_trace_state = after]
    IN  IF d.active THEN Res(d, ZX_ERR_BAD_STATE)
        ELSE IF d.mode # IPT_TRACE_CPUS THEN Res(d, ZX_ERR_BAD_STATE)
        ELSE IF stage_fail < n
        THEN [Res(d1, stage_err) EXCEPT !.calls = stage_calls]
        ELSE IF st # ZX_OK
        THEN [Res(d1, st) EXCEPT
                !.calls = Append(stage_calls, Call("START", 0, NULL, st))]
        ELSE [Res([d1 EXCEPT !.active = TRUE], ZX_OK) EXCEPT
                !.calls = Append(stage_calls, Call("START", 0, NULL, st))]

\* ipt_start setting dev->active before it looks at START's status.
ipt_start_early_active(d, stage_fail, stage_err, st) ==
    LET slots == d.per_trace_state
        n == d.num_traces
        staged == IF stage_fail < n THEN stage_fail ELSE n
        after == [i \in 1..n |->
                    IF i - 1 < staged
                    THEN [slots[i] EXCEPT !.owner_cpu = i - 1,
                                          !.assigned = TRUE]
                    ELSE slots[i]]
        stage_call(cpu) ==
            Call("STAGE_TRACE_DATA", cpu, StagedRegs(slots[cpu + 1]),
                 IF cpu = stage_fail THEN stage_err ELSE ZX_OK)
        stage_calls ==
            [i \in 1..(IF stage_fail < n THEN staged + 1 ELSE n) |->
                stage_call(i - 1)]
        d1 == [d EXCEPT !.per_trace_state = after]
    IN  IF d.active THEN Res(d, ZX_ERR_BAD_STATE)
        ELSE IF d.mode # IPT_TRACE_CPUS THEN Res(d, ZX_ERR_BAD_STATE)
        ELSE IF \E i \in 1..n : ~slots[i].allocated \/ slots[i].assigned
        THEN Res(d, ZX_ERR_BAD_STATE)
        ELSE IF stage_fail < n
        THEN [Res(d1, stage_err) EXCEPT !.calls = stage_calls]
        ELSE IF st # ZX_OK
        THEN [Res([d1 EXCEPT !.active = TRUE], st) EXCEPT
                !.calls = Append(stage_calls, Call("START", 0, NULL, st))]
        ELSE [Res([d1 EXCEPT !.active = TRUE], ZX_OK) EXCEPT
                !.calls = Append(stage_calls, Call("START", 0, NULL, st))]

\* ------------------------------------------------------- ipt_start
\* stage_fail: the cpu whose STAGE_TRACE_DATA the kernel refuses with
\* stage_err (num_traces: none); st: the kernel's answer to START.
ipt_start(d, stage_fail, stage_err, st) ==
    LET slots == d.per_trace_state
        n == d.num_traces
        staged == IF stage_fail < n THEN stage_fail ELSE n
        after == [i \in 1..n |->
                    IF i - 1 < staged
                    THEN [slots[i] EXCEPT !.owner_cpu = i - 1,
                                          !.assigned = TRUE]
                    ELSE slots[i]]
        stage_call(cpu) ==
            Call("STAGE_TRACE_DATA", cpu, StagedRegs(slots[cpu + 1]),
                 IF cpu = stage_fail THEN stage_err ELSE ZX_OK)
        stage_calls ==
            [i \in 1..(IF stage_fail < n THEN staged + 1 ELSE n) |->
                stage_call(i - 1)]
        d1 == [d EXCEPT !.per_trace_state = after]
    IN  IF d.active THEN Res(d, ZX_ERR_BAD_STATE)
        ELSE IF d.mode # IPT_TRACE_CPUS THEN Res(d, ZX_ERR_BAD_STATE)
        ELSE IF \E i \in 1..n : ~slots[i].allocated \/ slots[i].assigned
        THEN Res(d, ZX_ERR_BAD_STATE)
        ELSE IF stage_fail < n
        THEN [Res(d1, stage_err) EXCEPT !.calls = stage_calls]
        ELSE IF st # ZX_OK
        THEN [Res(d1, st) EXCEPT
                !.calls = Append(stage_calls, Call("START", 0, NULL, st))]
        ELSE [Res([d1 EXCEPT !.active = TRUE], ZX_OK) EXCEPT
                !.calls = Append(stage_calls, Call("START", 0, NULL, st))]

\* ipt_stop unassigning the slot whose GET_TRACE_DATA was refused as well.
ipt_stop_through(d, st, get_fail, get_err, snap) ==
    LET slots == d.per_trace_state
        n == d.num_traces
        got == IF get_fail < n THEN get_fail ELSE n
        regs(cpu) == HwSnapshot(slots[cpu + 1], snap)
        after == [i \in 1..n |->
                    IF i - 1 <= got
                    THEN [x86_pt_get_trace_data(slots[i], regs(i - 1))
                            EXCEPT !.assigned = FALSE, !.owner_cpu = 0]
                    ELSE slots[i]]
        get_call(cpu) ==
            IF cpu = get_fail
            THEN Call("GET_TRACE_DATA", cpu, NULL, get_err)
            ELSE Call("GET_TRACE_DATA", cpu, regs(cpu), ZX_OK)
        get_calls ==
            [i \in 1..(IF get_fail < n THEN got + 1 ELSE n) |->
                get_call(i - 1)]
        stop_call == Call("STOP", 0, NULL, st)
        d1 == [d EXCEPT !.active = FALSE]
        d2 == [d1 EXCEPT !.per_trace_state = after]
    IN  IF ~d.active THEN Res(d, ZX_ERR_BAD_STATE)
        ELSE IF st # ZX_OK
        THEN [Res(d, st) EXCEPT !.calls = <<stop_call>>]
        ELSE IF d.mode # IPT_TRACE_CPUS
        THEN [Res(d1, ZX_OK) EXCEPT !.calls = <<stop_call>>]
        ELSE [Res(d2, IF get_fail < n THEN get_err ELSE ZX_OK) EXCEPT
                !.calls = <<stop_call>> \o get_calls]

\* -------------------------------------------------------- ipt_stop
\* st: the kernel's answer to STOP; get_fail: the cpu whose GET_TRACE_DATA
\* the kernel refuses with get_err (num_traces: none); snap: the kind of
\* register block the kernel returns during this stop.
ipt_stop(d, st, get_fail, get_err, snap) ==
    LET slots == d.per_trace_state
        n == d.num_traces
        got == IF get_fail < n THEN get_fail ELSE n
        regs(cpu) == HwSnapshot(slots[cpu + 1], snap)
        after == [i \in 1..n |->
                    IF i - 1 < got
                    THEN [x86_pt_get_trace_data(slots[i], regs(i - 1))
                            EXCEPT !.assigned = FALSE, !.owner_cpu = 0]
                    ELSE slots[i]]
        get_call(cpu) ==
            IF cpu = get_fail
            THEN Call("GET_TRACE_DATA", cpu, NULL, get_err)
            ELSE Call("GET_TRACE_DATA", cpu, regs(cpu), ZX_OK)
        get_calls ==
            [i \in 1..(IF get_fail < n THEN got + 1 ELSE n) |->
                get_call(i - 1)]
        stop_call == Call("STOP", 0, NULL, st)
        d1 == [d EXCEPT !.active = FALSE]
        d2 == [d1 EXCEPT !.per_trace_state = after]
    IN  IF ~d.active THEN Res(d, ZX_ERR_BAD_STATE)
        ELSE IF st # ZX_OK
        THEN [Res(d, st) EXCEPT !.calls = <<stop_call>>]
        ELSE IF d.mode # IPT_TRACE_CPUS
        THEN [Res(d1, ZX_OK) EXCEPT !.calls = <<stop_call>>]
        ELSE [Res(d2, IF get_fail < n THEN get_err ELSE ZX_OK) EXCEPT
                !.calls = <<stop_call>> \o get_calls]

\* ------------------------------------------ insntrace_ioctl_worker
Ops ==
    {"ALLOC_TRACE", "FREE_TRACE", "GET_TRACE_CONFIG", "ALLOC_BUFFER",
     "ASSIGN_THREAD_BUFFER", "RELEASE_THREAD_BUFFER", "GET_BUFFER_CONFIG",
     "GET_BUFFER_INFO", "GET_CHUNK_HANDLE", "FREE_BUFFER", "START", "STOP"}

\* rq: the request (sz, and the payload fields the operation reads);
\* env: what the external calls made during the operation answer.
insntrace_ioctl_worker(caps, d, o, rq, env) ==
    IF o # "ALLOC_TRACE" /\ d.per_trace_state = NULL
    THEN Res(d, ZX_ERR_BAD_STATE)
    ELSE CASE o = "ALLOC_TRACE" ->
                IF ~ReplymaxOk(rq.sz) THEN Res(d, ZX_ERR_INVALID_ARGS)
                ELSE ipt_alloc_trace(caps, d, rq.sz, rq.config,
                                     env.calloc_ok, env.st)
           [] o = "FREE_TRACE" ->
                IF ~CmdlenOk(rq.sz) \/ ~ReplymaxOk(rq.sz)
                THEN Res(d, ZX_ERR_INVALID_ARGS)
                ELSE ipt_free_trace(d, env.st)
           [] o = "GET_TRACE_CONFIG" ->
                IF ~CmdlenOk(rq.sz) THEN Res(d, ZX_ERR_INVALID_ARGS)
                ELSE ipt_get_trace_config(d, rq.sz, env.uninit)
           [] o = "ALLOC_BUFFER" ->
                ipt_alloc_buffer(caps, d, rq.sz, rq.buffer, env.io)
           [] o = "ASSIGN_THREAD_BUFFER" ->
                IF ~ReplymaxOk(rq.sz) THEN Res(d, ZX_ERR_INVALID_ARGS)
                ELSE ipt_assign_thread_buffer(d, rq.sz)
           [] o = "RELEASE_THREAD_BUFFER" ->
                IF ~ReplymaxOk(rq.sz) THEN Res(d, ZX_ERR_INVALID_ARGS)
                ELSE ipt_release_thread_buffer(d, rq.sz)
           [] o = "GET_BUFFER_CONFIG" ->
                ipt_get_buffer_config(d, rq.sz, rq.descriptor)
           [] o = "GET_BUFFER_INFO" ->
                ipt_get_buffer_info(d, rq.sz, rq.descriptor)
           [] o = "GET_CHUNK_HANDLE" ->
                ipt_get_chunk_handle(d, rq.sz, rq.descriptor, rq.chunk_num,
                                     env.st, env.st2)
           [] o = "FREE_BUFFER" ->
                IF ~ReplymaxOk(rq.sz) THEN Res(d, ZX_ERR_INVALID_ARGS)
                ELSE ipt_free_buffer(d, rq.sz, rq.descriptor)
           [] o = "START" ->
                IF ~CmdlenOk(rq.sz) \/ ~ReplymaxOk(rq.sz)
                THEN Res(d, ZX_ERR_INVALID_ARGS)
                ELSE ipt_start(d, env.fail_at, env.fail_err, env.st)
           [] o = "STOP" ->
                IF ~CmdlenOk(rq.sz) \/ ~ReplymaxOk(rq.sz)
                THEN Res(d, ZX_ERR_INVALID_ARGS)
                ELSE ipt_stop(d, env.st, env.fail_at, env.fail_err, env.snap)
           [] OTHER -> Res(d, ZX_ERR_INVALID_ARGS)

\* ----------------------------------------------- insntrace_release
\* What the walk of num_traces entries of a NULL trace vector may do: the
\* process faults; the bytes read as an assigned slot; the bytes read as
\* slots neither assigned nor allocated.
NullWalkOutcomes == {"fault", "assigned", "clear"}

\* ipt_free_trace entered with per_trace_state == NULL and num_traces > 0.
ipt_free_trace_null(d, st, ub) ==
    IF ub = "clear"
    THEN [Res(d, ZX_OK) EXCEPT !.calls = <<Call("FREE_TRACE", 0, NULL, st)>>]
    ELSE Res(d, ZX_ERR_BAD_STATE)

\* The device release hook: ipt_stop, then ipt_free_trace, both called
\* directly (the worker's test of per_trace_state is not made) and their
\* status dropped; then the bti handle is closed and the device freed.
\* env.st answers STOP, env.st2 answers FREE_TRACE.  outcome tells whether
\* the hook ran on defined behaviour ("done"), faulted in the walk of a
\* NULL vector ("fault") or went on after it ("garbage").
insntrace_release(d, env, ub) ==
    LET s == ipt_stop(d, env.st, env.fail_at, env.fail_err, env.snap)
        null_walk == ~s.dev.active /\ s.dev.per_trace_state = NULL
                        /\ s.dev.num_traces > 0
        f == IF null_walk THEN ipt_free_trace_null(s.dev, env.st2, ub)
             ELSE ipt_free_trace(s.dev, env.st2)
    IN  [dev |-> f.dev, calls |-> s.calls \o f.calls, rel |-> s.rel \o f.rel,
         stop_ret |-> s.ret, free_ret |-> f.ret,
         outcome |-> IF ~null_walk THEN "done"
                     ELSE IF ub = "fault" THEN "fault" ELSE "garbage"]

\* ---------------------------------------------------------- inputs
TraceConfig(mode, n) == [mode |-> mode, num_traces |-> n]
BufferConfig(num, order, circ, ctl, cr3) ==
    [ctl |-> ctl, num_chunks |-> num, chunk_order |-> order,
     is_circular |-> circ, cr3_match |-> cr3, addr_ranges |-> ZeroAddrRanges]

\* Requests ALLOC_BUFFER accepts (the second needs multi-entry ToPA) ...
CfgA == BufferConfig(1, 0, TRUE, [TSC_EN |-> 1, BRANCH_EN |-> 1], 0)
CfgB == BufferConfig(MaxReqChunks, 1, FALSE, [BRANCH_EN |-> 1], PAGE_SIZE)
GoodConfigs == {CfgA, CfgB}
\* ... and requests it rejects on some or on all capability records.
BadConfigs ==
    {BufferConfig(0, 0, TRUE, CtlZero, 0),
     BufferConfig(MAX_NUM_CHUNKS, 5, TRUE, CtlZero, 0),
     BufferConfig(1, 0, TRUE, [TRACE_EN |-> 1], 0),
     BufferConfig(1, 0, TRUE, [MTC_EN |-> 1, MTC_FREQ |-> 2], 0)}
BufferConfigs == GoodConfigs \cup BadConfigs

GoodTraceConfig == TraceConfig(IPT_MODE_CPUS, NumCpus)
TraceConfigs ==
    {GoodTraceConfig,
     TraceConfig(IPT_MODE_THREADS, NumCpus),
     TraceConfig(IPT_MODE_THREADS, 1),
     TraceConfig(IPT_MODE_THREADS, 0),
     TraceConfig(IPT_MODE_THREADS, IPT_MAX_NUM_TRACES + 1),
     TraceConfig(2, NumCpus),
     TraceConfig(IPT_MODE_CPUS, NumCpus + 1),
     TraceConfig(IPT_MODE_CPUS, IPT_MAX_NUM_TRACES + 1)}

Descriptors == 0..NumCpus
ChunkNums == 0..MaxReqChunks
\* What an uninitialised uint32_t may hold.
UninitU32 == {0, NumCpus, IPT_MAX_NUM_TRACES + 1}

\* A request: the shape of its sizes and the payload fields operations
\* read (config: ALLOC_TRACE; buffer: ALLOC_BUFFER).
Rq(sz, tc, bc, descriptor, chunk_num) ==
    [descriptor |-> descriptor, config |-> tc, sz |-> sz,
     chunk_num |-> chunk_num, buffer |-> bc]
NoTraceConfig == TraceConfig(0, 0)
NoBufferConfig == BufferConfig(0, 0, FALSE, CtlZero, 0)
RqPlain(sz) == Rq(sz, NoTraceConfig, NoBufferConfig, 0, 0)
RqDesc(d, k) == Rq("ok", NoTraceConfig, NoBufferConfig, d, k)

\* What the external calls made during one operation answer.
Env(calloc_ok, st, st2, io, uninit, fail_at, fail_err, snap) ==
    [io |-> io, calloc_ok |-> calloc_ok, st |-> st, uninit |-> uninit,
     snap |-> snap, st2 |-> st2, fail_at |-> fail_at,
     fail_err |-> fail_err]
\* Every external call succeeds.
EnvOk == Env(TRUE, ZX_OK, ZX_OK, IoOk, 0, NumCpus, ZX_OK, "ran")

In(rq, env) == [rq |-> rq, env |-> env]
\* Requests whose cmdlen or replymax is not what the operation expects.
Malformed == {In(RqPlain(sz), EnvOk) : sz \in ReqShapes \ {"ok"}}

\* The inputs (request and answers of the external calls) of each operation.
Inputs(o) ==
    CASE o = "ALLOC_TRACE" ->
            {In(Rq("ok", tc, NoBufferConfig, 0, 0), EnvOk) :
                tc \in TraceConfigs}
            \cup {In(Rq("ok", GoodTraceConfig, NoBufferConfig, 0, 0),
                     [EnvOk EXCEPT !.st = st]) : st \in MtraceErrs}
            \cup {In(Rq("ok", GoodTraceConfig, NoBufferConfig, 0, 0),
                     [EnvOk EXCEPT !.calloc_ok = FALSE])}
            \cup Malformed
      [] o = "FREE_TRACE" ->
            {In(RqPlain("ok"), [EnvOk EXCEPT !.st = st]) :
                st \in MtraceResults}
            \cup Malformed
      [] o = "GET_TRACE_CONFIG" ->
            {In(RqPlain("ok"), [EnvOk EXCEPT !.uninit = u]) :
                u \in UninitU32}
            \cup Malformed
      [] o = "ALLOC_BUFFER" ->
            UNION {{In(Rq("ok", NoTraceConfig, bc, 0, 0),
                       [EnvOk EXCEPT !.io = io]) :
                        io \in IoOutcomes(bc.num_chunks)} :
                    bc \in GoodConfigs}
            \cup {In(Rq("ok", NoTraceConfig, bc, 0, 0), EnvOk) :
                    bc \in BadConfigs}
            \cup Malformed
      [] o \in {"ASSIGN_THREAD_BUFFER", "RELEASE_THREAD_BUFFER",
                "GET_BUFFER_CONFIG", "GET_BUFFER_INFO", "FREE_BUFFER"} ->
            {In(RqDesc(d, 0), EnvOk) : d \in Descriptors} \cup Malformed
      [] o = "GET_CHUNK_HANDLE" ->
            \* zx_object_get_info or zx_handle_duplicate may fail
            {In(RqDesc(d, k), EnvOk) : d \in Descriptors, k \in ChunkNums}
            \cup {In(RqDesc(d, 0), [EnvOk EXCEPT !.st = ZX_ERR_BAD_STATE]) :
                    d \in Descriptors}
            \cup {In(RqDesc(d, 0),
                     [EnvOk EXCEPT !.st2 = ZX_ERR_ACCESS_DENIED]) :
                    d \in Descriptors}
            \cup Malformed
      [] o = "START" ->
            \* some STAGE_TRACE_DATA is refused, or all are accepted and
            \* START is answered st
            {In(RqPlain("ok"),
                [EnvOk EXCEPT !.fail_at = k, !.fail_err = e]) :
                k \in 0..(NumCpus - 1), e \in MtraceErrs}
            \cup {In(RqPlain("ok"), [EnvOk EXCEPT !.st = st]) :
                    st \in MtraceResults}
            \cup Malformed
      [] o = "STOP" ->
            \* STOP is refused; or it is accepted and some GET_TRACE_DATA
            \* is refused; or every call is accepted
            {In(RqPlain("ok"), [EnvOk EXCEPT !.st = st]) : st \in MtraceErrs}
            \cup {In(RqPlain("ok"),
                     [EnvOk EXCEPT !.fail_at = k, !.fail_err = e,
                                   !.snap = snap]) :
                    k \in 0..(NumCpus - 1), e \in MtraceErrs,
                    snap \in SnapKinds}
            \cup {In(RqPlain("ok"), [EnvOk EXCEPT !.snap = snap]) :
                    snap \in SnapKinds}
            \cup Malformed
      [] OTHER -> {In(RqPlain("ok"), EnvOk)}

\* The answers of the external calls made during a release.
ReleaseEnvs ==
    {[EnvOk EXCEPT !.st = st, !.st2 = st2] :
        st \in MtraceResults, st2 \in MtraceResults}
    \cup {[EnvOk EXCEPT !.fail_at = k, !.fail_err = e, !.snap = snap,
                        !.st2 = st2] :
            k \in 0..(NumCpus - 1), e \in MtraceErrs, snap \in SnapKinds,
            st2 \in MtraceResults}

\* Every ctl value with a single bit set: the bit of a one-bit field, one
\* of the four bits of a multi-bit field, or a reserved bit.
SingleBitCtls ==
    {[x \in {f} |-> 1] : f \in CtlBitFields \cup {"RESERVED"}}
    \cup {[x \in {f} |-> v] : f \in CtlMultiFields, v \in {1, 2, 4, 8}}
\* The ctl values that set nothing but MTC_FREQ, CYC_THRESH and PSB_FREQ,
\* each to one of SubFieldValues.
SubFields == {"MTC_FREQ", "CYC_THRESH", "PSB_FREQ"}
SubFieldValues == {0, 1, 2, 3, 4, 8}
SubFieldCtls ==
    {[x \in {f \in SubFields : v[f] # 0} |-> v[x]] :
        v \in [SubFields -> SubFieldValues]}
\* The smallest buffer, asked for with ctl.
CtlRequest(ctl) ==
    In(Rq("ok", NoTraceConfig, BufferConfig(1, 0, TRUE, ctl, 0), 0, 0), EnvOk)

Range(q) == {q[i] : i \in 1..Len(q)}

\* What operation o does on device d given the input in.
Run(c, d, o, in) == insntrace_ioctl_worker(c, d, o, in.rq, in.env)

\* ------------------------------------------------- the basic cycle
\* The requests of the basic cycle, in order: ALLOC_TRACE for one trace
\* per cpu, one ALLOC_BUFFER per cpu, START, STOP, FREE_BUFFER of
\* descriptors 0, 1, ..., FREE_TRACE; every external call succeeds.
CycleLen == 2 * NumCpus + 4
IsCycleStep(k, o, in) ==
    /\ in.env = EnvOk
    /\ in.rq.sz = "ok"
    /\ \/ k = 1 /\ o = "ALLOC_TRACE" /\ in.rq.config = GoodTraceConfig
       \/ k \in 2..(NumCpus + 1) /\ o = "ALLOC_BUFFER"
            /\ in.rq.buffer \in GoodConfigs
       \/ k = NumCpus + 2 /\ o = "START"
       \/ k = NumCpus + 3 /\ o = "STOP"
       \/ k \in (NumCpus + 4)..(2 * NumCpus + 3) /\ o = "FREE_BUFFER"
            /\ in.rq.descriptor = k - (NumCpus + 4)
       \/ k = CycleLen /\ o = "FREE_TRACE"

\* ----------------------------------------------------------- state
VARIABLES
    caps,        \* the ipt_config_* globals
    dev,         \* the insntrace_device_t
    dma_live,    \* io_buffers initialised and not yet released
    cycle,       \* history: the last `cycle` operations were the first
                 \* `cycle` requests of a basic cycle begun with no vector
    trace_freed, \* history: FREE_TRACE returned ZX_OK and ALLOC_TRACE was
                 \* not requested since
    released,    \* "no" until the release hook ran, then its outcome
    opened,      \* dev->opened
    lock,        \* the thread that holds dev->lock, NoThread if none
    pc,          \* where each thread stands in the hook it is running
    opens_ok     \* history: insntrace_open calls that returned ZX_OK
                 \* since the last insntrace_close

vars == <<caps, dev, dma_live, cycle, trace_freed, released, opened, lock,
          pc, opens_ok>>

\* The threads of the devhost that may run a hook of the device.
NumThreads == 2
Threads == 1..NumThreads
NoThread == 0

\* The variables only concurrent callers make visible, and their values
\* after insntrace_bind: calloc leaves opened false and the mutex free.
conc == <<opened, lock, pc, opens_ok>>
ConcInit ==
    /\ opened = FALSE
    /\ lock = NoThread
    /\ pc = [t \in Threads |-> "idle"]
    /\ opens_ok = 0

Init ==
    /\ caps \in CapsSet
    /\ dev = ZeroDev
    /\ dma_live = {}
    /\ cycle = 0
    /\ trace_freed = FALSE
    /\ released = "no"
    /\ ConcInit

\* What one call of the worker does to the device and to the io_buffers.
\* The status and the reply go back to the caller and are not kept.
Work(o, in) ==
    /\ released = "no"
    /\ \E r \in {Run(caps, dev, o, in)} :
            /\ dev' = r.dev
            /\ dma_live' = (dma_live \cup Range(r.acq)) \ Range(r.rel)
            /\ cycle' = IF cycle < CycleLen /\ cycle > 0
                           /\ IsCycleStep(cycle + 1, o, in)
                        THEN cycle + 1
                        ELSE IF IsCycleStep(1, o, in)
                                /\ dev.per_trace_state = NULL
                        THEN 1
                        ELSE 0
            /\ trace_freed' = IF o = "FREE_TRACE" /\ r.ret = ZX_OK THEN TRUE
                              ELSE IF o = "ALLOC_TRACE" THEN FALSE
                              ELSE trace_freed
            /\ UNCHANGED <<caps, released>>

\* One ioctl of a single caller: insntrace_ioctl takes the lock, runs the
\* worker, unlocks.
Step(o, in) == Work(o, in) /\ UNCHANGED conc

Ioctl(o) == \E in \in Inputs(o) : Step(o, in)

AllocTrace == Ioctl("ALLOC_TRACE")
FreeTrace == Ioctl("FREE_TRACE")
GetTraceConfig == Ioctl("GET_TRACE_CONFIG")
AllocBuffer == Ioctl("ALLOC_BUFFER")
AssignThreadBuffer == Ioctl("ASSIGN_THREAD_BUFFER")
ReleaseThreadBuffer == Ioctl("RELEASE_THREAD_BUFFER")
GetBufferConfig == Ioctl("GET_BUFFER_CONFIG")
GetBufferInfo == Ioctl("GET_BUFFER_INFO")
GetChunkHandle == Ioctl("GET_CHUNK_HANDLE")
FreeBuffer == Ioctl("FREE_BUFFER")
Start == Ioctl("START")
Stop == Ioctl("STOP")
\* An ioctl of the family with an operation number the worker does not know.
UnknownOp == Ioctl("UNKNOWN")

\* The devhost releases the device; no operation follows.  The structure
\* is freed: dev goes back to the value that stands for no contents, and
\* dma_live keeps the io_buffers the hook did not release.
Release ==
    /\ released = "no"
    /\ \E env \in ReleaseEnvs, ub \in NullWalkOutcomes :
        \E r \in {insntrace_release(dev, env, ub)} :
            /\ dev' = ZeroDev
            /\ dma_live' = dma_live \ Range(r.rel)
            /\ released' = r.outcome
            /\ cycle' = 0
            /\ UNCHANGED <<caps, trace_freed>>
            /\ UNCHANGED conc

Next ==
    \/ AllocTrace
    \/ FreeTrace
    \/ GetTraceConfig
    \/ AllocBuffer
    \/ AssignThreadBuffer
    \/ ReleaseThreadBuffer
    \/ GetBufferConfig
    \/ GetBufferInfo
    \/ GetChunkHandle
    \/ FreeBuffer
    \/ Start
    \/ Stop
    \/ UnknownOp
    \/ Release

Spec == Init /\ [][Next]_vars

\* ------------------------------------- the control-bit validator
\* A client that allocates the trace, asks for a buffer with a single
\* ctl bit or with values in the three frequency sub-fields, and frees it
\* before it asks for the next, on every capability record.
CtlInit ==
    /\ caps \in CapsAll
    /\ dev = ZeroDev
    /\ dma_live = {}
    /\ cycle = 0
    /\ trace_freed = FALSE
    /\ released = "no"
    /\ ConcInit

CtlAllocTrace ==
    Step("ALLOC_TRACE",
         In(Rq("ok", GoodTraceConfig, NoBufferConfig, 0, 0), EnvOk))
CtlAllocBuffer ==
    /\ dma_live = {}
    /\ \E ctl \in SingleBitCtls \cup SubFieldCtls :
            Step("ALLOC_BUFFER", CtlRequest(ctl))
CtlFreeBuffer == Step("FREE_BUFFER", In(RqDesc(0, 0), EnvOk))
CtlFreeTrace == Step("FREE_TRACE", In(RqPlain("ok"), EnvOk))

CtlNext ==
    \/ CtlAllocTrace
    \/ CtlAllocBuffer
    \/ CtlFreeBuffer
    \/ CtlFreeTrace

SpecCtl == CtlInit /\ [][CtlNext]_vars

\* ------------------------------------------- the ToPA builder's inputs
\* The largest request: two full tables and part of a third.
MaxTopaChunks == 2 * IPT_TOPA_MAX_TABLE_ENTRIES + 1
TopaChunks == 1..MaxTopaChunks
TopaOrders == {0, 1}
TopaSnapKinds == {"ran", "error", "last", "full", "next"}
\* The allocator succeeds, or hands back the first chunk misaligned, or
\* the last chunk aligned to a page only.
TopaIo(num) ==
    {IoOk, Io("misaligned", 0, ZX_OK), Io("page_aligned", num - 1, ZX_OK)}
TopaRequest(num, order, circ, io) ==
    In(Rq("ok", NoTraceConfig, BufferConfig(num, order, circ, CtlZero, 0),
          0, 0),
       [EnvOk EXCEPT !.io = io])

\* A client that allocates the trace and, while a slot is free, one
\* buffer per cpu, at most one of them of more than one chunk, starts
\* tracing on fresh buffers, stops it, and frees the trace with its
\* buffers; the external calls succeed,
\* except that the allocator may hand back a misaligned chunk.
TopaInit ==
    /\ caps \in CapsSet
    /\ dev = ZeroDev
    /\ dma_live = {}
    /\ cycle = 0
    /\ trace_freed = FALSE
    /\ released = "no"
    /\ ConcInit

TopaAllocTrace ==
    Step("ALLOC_TRACE",
         In(Rq("ok", GoodTraceConfig, NoBufferConfig, 0, 0), EnvOk))
TopaAllocBuffer ==
    \E num \in TopaChunks, order \in TopaOrders, circ \in BOOLEAN :
        /\ \E i \in 1..Len(dev.per_trace_state) :
              ~dev.per_trace_state[i].allocated
        /\ \/ num = 1 /\ order = 0 /\ circ
           \/ \A i \in 1..Len(dev.per_trace_state) :
                 dev.per_trace_state[i].allocated =>
                     dev.per_trace_state[i].num_chunks = 1
        /\ \E io \in TopaIo(num) :
              Step("ALLOC_BUFFER", TopaRequest(num, order, circ, io))
TopaStart ==
    /\ \A i \in 1..Len(dev.per_trace_state) :
          SlotRegs(dev.per_trace_state[i]).output_mask_ptrs = U64(0, 0)
    /\ Step("START", In(RqPlain("ok"), EnvOk))
TopaStop ==
    \E snap \in TopaSnapKinds :
        Step("STOP", In(RqPlain("ok"), [EnvOk EXCEPT !.snap = snap]))
TopaFreeTrace == Step("FREE_TRACE", In(RqPlain("ok"), EnvOk))

TopaNext ==
    \/ TopaAllocTrace
    \/ TopaAllocBuffer
    \/ TopaStart
    \/ TopaStop
    \/ TopaFreeTrace

SpecTopa == TopaInit /\ [][TopaNext]_vars

\* ------------------------------------------- the devhost's threads
\* The ioctls the threads issue: the requests of the basic cycle, every
\* external call succeeding.
MtRequests ==
    {<<"ALLOC_TRACE", In(Rq("ok", GoodTraceConfig, NoBufferConfig, 0, 0),
                         EnvOk)>>,
     <<"ALLOC_BUFFER", In(Rq("ok", NoTraceConfig, CfgA, 0, 0), EnvOk)>>,
     <<"START", In(RqPlain("ok"), EnvOk)>>,
     <<"STOP", In(RqPlain("ok"), EnvOk)>>,
     <<"FREE_TRACE", In(RqPlain("ok"), EnvOk)>>}
    \cup {<<"FREE_BUFFER", In(RqDesc(d, 0), EnvOk)>> :
            d \in 0..(NumCpus - 1)}

MtInit ==
    /\ caps \in CapsSet
    /\ dev = ZeroDev
    /\ dma_live = {}
    /\ cycle = 0
    /\ trace_freed = FALSE
    /\ released = "no"
    /\ ConcInit

\* insntrace_open, first statement: thread t reads dev->opened and
\* returns ZX_ERR_ALREADY_BOUND if it is set.  No lock is taken.
OpenTest(t) ==
    /\ released = "no"
    /\ pc[t] = "idle"
    /\ IF opened
       THEN UNCHANGED vars
       ELSE /\ pc' = [pc EXCEPT ![t] = "open"]
            /\ UNCHANGED <<caps, dev, dma_live, cycle, trace_freed, released,
                           opened, lock, opens_ok>>

\* insntrace_open, second statement: thread t sets dev->opened and
\* returns ZX_OK.
OpenSet(t) ==
    /\ released = "no"
    /\ pc[t] = "open"
    /\ opened' = TRUE
    /\ opens_ok' = opens_ok + 1
    /\ pc' = [pc EXCEPT ![t] = "idle"]
    /\ UNCHANGED <<caps, dev, dma_live, cycle, trace_freed, released, lock>>

\* insntrace_close of the open instance, by thread t.  No lock is taken.
Close(t) ==
    /\ released = "no"
    /\ pc[t] = "idle"
    /\ opened
    /\ opened' = FALSE
    /\ opens_ok' = 0
    /\ UNCHANGED <<caps, dev, dma_live, cycle, trace_freed, released, lock,
                   pc>>

\* insntrace_ioctl: mtx_lock returns to thread t once the mutex is free.
IoctlLock(t) ==
    /\ released = "no"
    /\ pc[t] = "idle"
    /\ lock = NoThread
    /\ lock' = t
    /\ pc' = [pc EXCEPT ![t] = "locked"]
    /\ UNCHANGED <<caps, dev, dma_live, cycle, trace_freed, released,
                   opened, opens_ok>>

\* insntrace_ioctl: thread t runs the worker.
IoctlRun(t) ==
    /\ pc[t] = "locked"
    /\ \E q \in MtRequests : Work(q[1], q[2])
    /\ pc' = [pc EXCEPT ![t] = "unlock"]
    /\ UNCHANGED <<opened, lock, opens_ok>>

\* insntrace_ioctl: mtx_unlock, and thread t returns the result.
IoctlUnlock(t) ==
    /\ released = "no"
    /\ pc[t] = "unlock"
    /\ lock' = NoThread
    /\ pc' = [pc EXCEPT ![t] = "idle"]
    /\ UNCHANGED <<caps, dev, dma_live, cycle, trace_freed, released,
                   opened, opens_ok>>

\* The devhost releases the device once it is closed and no thread is
\* inside a hook.  insntrace_release takes no lock.
MtRelease ==
    /\ \A t \in Threads : pc[t] = "idle"
    /\ ~opened
    /\ Release

MtNext ==
    \/ \E t \in Threads : OpenTest(t)
    \/ \E t \in Threads : OpenSet(t)
    \/ \E t \in Threads : Close(t)
    \/ \E t \in Threads : IoctlLock(t)
    \/ \E t \in Threads : IoctlRun(t)
    \/ \E t \in Threads : IoctlUnlock(t)
    \/ MtRelease

SpecMt == MtInit /\ [][MtNext]_vars

\* ============================================================ claims
Present(d) == d.per_trace_state # NULL
SlotIdx(d) == 0..(Len(d.per_trace_state) - 1)
SlotOf(d, i) == d.per_trace_state[i + 1]
SlotAllocated(d, i) == i \in SlotIdx(d) /\ SlotOf(d, i).allocated
WellFormed(o) == {in \in Inputs(o) : in.rq.sz = "ok"}

\* C1: whenever tracing is active in cpu mode, every slot i below
\* num_traces is allocated and assigned and records cpu i as its owner.
C1_ActiveSlotsAssigned ==
    dev.active /\ dev.mode = IPT_TRACE_CPUS =>
        /\ Len(dev.per_trace_state) = dev.num_traces
        /\ \A i \in 0..(dev.num_traces - 1) :
              /\ SlotOf(dev, i).allocated
              /\ SlotOf(dev, i).assigned
              /\ SlotOf(dev, i).owner_cpu = i

\* Tracing is active again, on a slot that keeps the error status an
\* earlier stop saved.
C1_Witness ==
    /\ dev.active
    /\ dev.mode = IPT_TRACE_CPUS
    /\ dev.num_traces = NumCpus
    /\ \A i \in SlotIdx(dev) : SlotOf(dev, i).owner_cpu = i
    /\ \E i \in SlotIdx(dev) : SlotOf(dev, i).status # 0

\* C2: in every reachable state every assigned slot is allocated.
C2_AssignedIsAllocated ==
    \A i \in SlotIdx(dev) : SlotOf(dev, i).assigned => SlotOf(dev, i).allocated

\* A device that is not tracing holds an assigned slot (left by a start
\* or a stop that failed partway), and free_buffer of it is refused.
C2_Witness ==
    /\ ~dev.active
    /\ \E i \in SlotIdx(dev) :
          /\ SlotOf(dev, i).assigned
          /\ SlotOf(dev, i).allocated
          /\ Run(caps, dev, "FREE_BUFFER", In(RqDesc(i, 0), EnvOk)).ret
                = ZX_ERR_BAD_STATE

\* The "Requires" column of the lifecycle table, for operation o asked
\* with request rq of a device d.
PreMet(c, d, o, rq) ==
    CASE o = "ALLOC_TRACE" -> c.supported /\ c.output_topa /\ ~Present(d)
      [] o = "FREE_TRACE" ->
            ~d.active /\ \A i \in SlotIdx(d) : ~SlotOf(d, i).assigned
      [] o \in {"GET_TRACE_CONFIG", "ALLOC_BUFFER"} -> Present(d)
      [] o = "FREE_BUFFER" ->
            /\ ~d.active
            /\ SlotAllocated(d, rq.descriptor)
            /\ ~SlotOf(d, rq.descriptor).assigned
      [] o \in {"ASSIGN_THREAD_BUFFER", "RELEASE_THREAD_BUFFER"} ->
            d.mode = IPT_TRACE_THREADS
      [] o = "GET_BUFFER_CONFIG" -> SlotAllocated(d, rq.descriptor)
      [] o = "GET_BUFFER_INFO" ->
            /\ SlotAllocated(d, rq.descriptor)
            /\ (d.mode = IPT_TRACE_THREADS \/ ~d.active)
      [] o = "GET_CHUNK_HANDLE" ->
            /\ SlotAllocated(d, rq.descriptor)
            /\ rq.chunk_num < SlotOf(d, rq.descriptor).num_chunks
      [] o = "START" ->
            /\ ~d.active
            /\ d.mode = IPT_TRACE_CPUS
            /\ Present(d)
            /\ \A i \in SlotIdx(d) :
                  SlotOf(d, i).allocated /\ ~SlotOf(d, i).assigned
      [] o = "STOP" -> d.active

\* C3 (as written): an operation asked when its precondition of the
\* lifecycle table is not met returns BadState or InvalidArgs and leaves
\* the whole device state as it was.
C3_Original ==
    \A o \in Ops : \A in \in Inputs(o) :
        ~PreMet(caps, dev, o, in.rq) =>
            LET r == Run(caps, dev, o, in)
            IN  /\ r.ret \in {ZX_ERR_BAD_STATE, ZX_ERR_INVALID_ARGS}
                /\ r.dev = dev

\* C3 (amended): an operation asked when its precondition of the lifecycle
\* table is not met leaves the whole device state as it was and returns
\* BadState or InvalidArgs, or NotSupported (alloc_trace on a cpu without
\* ToPA output, assign/release_thread_buffer), or BufferTooSmall (the reply
\* buffer is too small).
C3_UnmetPreconditionRejected ==
    \A o \in Ops : \A in \in Inputs(o) :
        ~PreMet(caps, dev, o, in.rq) =>
            LET r == Run(caps, dev, o, in)
            IN  /\ r.dev = dev
                /\ \/ r.ret \in {ZX_ERR_BAD_STATE, ZX_ERR_INVALID_ARGS}
                   \/ /\ r.ret = ZX_ERR_NOT_SUPPORTED
                      /\ \/ o = "ALLOC_TRACE" /\ ~caps.output_topa
                         \/ o \in {"ASSIGN_THREAD_BUFFER",
                                   "RELEASE_THREAD_BUFFER"}
                   \/ /\ r.ret = ZX_ERR_BUFFER_TOO_SMALL
                      /\ in.rq.sz = "replymax"

\* With the vector present and in cpu mode, assign_thread_buffer is
\* answered NotSupported and get_buffer_config of an unallocated slot,
\* asked with too small a reply buffer, BufferTooSmall.
C3_Witness ==
    /\ Present(dev)
    /\ dev.mode = IPT_TRACE_CPUS
    /\ ~SlotAllocated(dev, 0)
    /\ Run(caps, dev, "ASSIGN_THREAD_BUFFER", In(RqDesc(0, 0), EnvOk)).ret
          = ZX_ERR_NOT_SUPPORTED
    /\ Run(caps, dev, "GET_BUFFER_CONFIG", In(RqPlain("replymax"), EnvOk)).ret
          = ZX_ERR_BUFFER_TOO_SMALL

\* C4: while tracing is active, free_buffer and free_trace return BadState
\* and release no io_buffer, alloc_buffer changes no slot, and
\* get_buffer_info returns BadState in cpu mode, for every descriptor.
C4_ActiveBuffersUntouched ==
    dev.active =>
        /\ \A o \in {"FREE_BUFFER", "FREE_TRACE"} : \A in \in Inputs(o) :
              LET r == Run(caps, dev, o, in)
              IN  /\ r.rel = << >>
                  /\ r.dev = dev
                  /\ in.rq.sz = "ok" => r.ret = ZX_ERR_BAD_STATE
        /\ \A in \in Inputs("ALLOC_BUFFER") :
              LET r == Run(caps, dev, "ALLOC_BUFFER", in)
              IN  /\ r.dev.per_trace_state = dev.per_trace_state
                  /\ r.acq = << >>
                  /\ r.rel = << >>
                  /\ r.ret # ZX_OK
        /\ dev.mode = IPT_TRACE_CPUS =>
              \A in \in WellFormed("GET_BUFFER_INFO") :
                  LET r == Run(caps, dev, "GET_BUFFER_INFO", in)
                  IN  r.ret = ZX_ERR_BAD_STATE /\ r.reply = NULL

\* Tracing is active on buffers that hold io_buffers, and free_buffer,
\* free_trace and get_buffer_info are refused.
C4_Witness ==
    /\ dev.active
    /\ dma_live # {}
    /\ \A o \in {"FREE_BUFFER", "FREE_TRACE", "GET_BUFFER_INFO"} :
          Run(caps, dev, o, In(RqDesc(0, 0), EnvOk)).ret = ZX_ERR_BAD_STATE

\* The (allocated, assigned) state of slot i; a slot of an absent vector
\* is unallocated.
SlotState(d, i) ==
    IF i \notin SlotIdx(d) THEN "Unallocated"
    ELSE LET s == SlotOf(d, i)
         IN  IF s.allocated /\ s.assigned THEN "Assigned"
             ELSE IF s.allocated THEN "Allocated"
             ELSE IF s.assigned THEN "AssignedUnallocated"
             ELSE "Unallocated"

\* C5: whatever operation runs next, each slot keeps its state or moves
\* along Unallocated -> Allocated (a successful alloc_buffer),
\* Allocated -> Assigned (start), Assigned -> Allocated (stop) or
\* Allocated -> Unallocated (free_buffer, free_trace).
C5_SlotEdges ==
    \A o \in Ops : \A in \in Inputs(o) :
        LET r == Run(caps, dev, o, in)
        IN  \A i \in 0..(NumCpus - 1) :
                LET a == SlotState(dev, i)
                    b == SlotState(r.dev, i)
                IN  \/ a = b
                    \/ /\ a = "Unallocated" /\ b = "Allocated"
                       /\ o = "ALLOC_BUFFER" /\ r.ret = ZX_OK
                    \/ a = "Allocated" /\ b = "Assigned" /\ o = "START"
                    \/ a = "Assigned" /\ b = "Allocated" /\ o = "STOP"
                    \/ /\ a = "Allocated" /\ b = "Unallocated"
                       /\ o \in {"FREE_BUFFER", "FREE_TRACE"}

\* A stop moved slot 0 back to allocated while slot 1 stayed assigned
\* (its GET_TRACE_DATA was refused).
C5_Witness ==
    /\ ~dev.active
    /\ SlotState(dev, 0) = "Allocated"
    /\ SlotState(dev, 1) = "Assigned"

\* C6: on a cpu with multi-entry ToPA and with every external call
\* succeeding, each step of the basic cycle returns OK, the k-th
\* alloc_buffer returns descriptor k - 1, and after the last step the
\* vector is gone, tracing is inactive and no io_buffer is held.
C6_BasicCycle ==
    caps.output_topa_multi =>
        /\ \A o \in Ops : \A in \in Inputs(o) :
              /\ IsCycleStep(cycle + 1, o, in)
              /\ cycle = 0 => ~Present(dev)
              => LET r == Run(caps, dev, o, in)
                 IN  /\ r.ret = ZX_OK
                     /\ o = "ALLOC_BUFFER" => r.reply = <<cycle - 1>>
        /\ cycle = CycleLen =>
              /\ dev.per_trace_state = NULL
              /\ ~dev.active
              /\ dma_live = {}

\* The whole basic cycle was run.
C6_Witness ==
    /\ caps.output_topa_multi
    /\ cycle = CycleLen

\* The GET_TRACE_DATA call of cpu i among the calls q, if it succeeded.
GotTraceData(q, i) ==
    {k \in 1..Len(q) : /\ q[k].action = "GET_TRACE_DATA"
                       /\ q[k].descriptor = i
                       /\ q[k].status = ZX_OK}

\* C7: a stop that returns OK in cpu mode leaves tracing inactive and
\* every slot unassigned, holding exactly the registers the kernel's
\* GET_TRACE_DATA returned for its cpu.
C7_StopSavesSnapshot ==
    \A in \in Inputs("STOP") :
        LET r == Run(caps, dev, "STOP", in)
        IN  r.ret = ZX_OK /\ dev.mode = IPT_TRACE_CPUS =>
                /\ ~r.dev.active
                /\ \A i \in SlotIdx(r.dev) :
                      /\ ~SlotOf(r.dev, i).assigned
                      /\ GotTraceData(r.calls, i) # {}
                      /\ \A k \in GotTraceData(r.calls, i) :
                            SlotRegs(SlotOf(r.dev, i)) = r.calls[k].payload

\* After a stop the slots hold what the hardware reported: an output
\* offset halfway into the first chunk and the ToPA bit set.
C7_Witness ==
    /\ ~dev.active
    /\ \A i \in 0..(NumCpus - 1) :
          /\ SlotAllocated(dev, i)
          /\ ~SlotOf(dev, i).assigned
          /\ SlotOf(dev, i).output_mask_ptrs = U64(PAGE_SIZE \div 2, 0)
          /\ CtlGet(SlotOf(dev, i).ctl, "TOPA") = 1

\* The privileged START is the last call of q and follows one accepted
\* STAGE_TRACE_DATA for each cpu of d, in cpu order.
StartAfterStaging(d, q) ==
    \A k \in 1..Len(q) :
        q[k].action = "START" =>
            /\ k = d.num_traces + 1
            /\ k = Len(q)
            /\ \A j \in 1..d.num_traces :
                  /\ q[j].action = "STAGE_TRACE_DATA"
                  /\ q[j].descriptor = j - 1
                  /\ q[j].status = ZX_OK

\* C8 (as written): after start, active is true exactly if start returned
\* OK, and START is issued only after every slot was staged.
C8_Original ==
    \A in \in Inputs("START") :
        LET r == Run(caps, dev, "START", in)
        IN  /\ r.dev.active <=> r.ret = ZX_OK
            /\ StartAfterStaging(dev, r.calls)

\* C8 (amended): start turns active on exactly if it returns OK, and a
\* start that returns an error leaves active as it was (false, unless
\* start was asked while tracing was already active); START is issued
\* only after every slot was staged.
C8_StartSetsActive ==
    \A in \in Inputs("START") :
        LET r == Run(caps, dev, "START", in)
        IN  /\ r.ret = ZX_OK => ~dev.active /\ r.dev.active
            /\ r.ret # ZX_OK => r.dev.active = dev.active
            /\ StartAfterStaging(dev, r.calls)

\* Tracing is active, and a start is refused and leaves it active.
C8_Witness ==
    /\ dev.active
    /\ \A in \in WellFormed("START") :
          LET r == Run(caps, dev, "START", in)
          IN  r.ret = ZX_ERR_BAD_STATE /\ r.dev.active

\* Every operation asked of d is rejected.
Sealed(c, d) ==
    \A o \in Ops : \A in \in Inputs(o) : Run(c, d, o, in).ret # ZX_OK

\* C9: a start that fails after a slot was staged leaves no slot assigned,
\* or leaves a device that rejects every further operation.
C9_Original ==
    \A in \in Inputs("START") :
        LET r == Run(caps, dev, "START", in)
        IN  /\ r.ret # ZX_OK
            /\ \E k \in 1..Len(r.calls) :
                  /\ r.calls[k].action = "STAGE_TRACE_DATA"
                  /\ r.calls[k].status = ZX_OK
            => \/ \A i \in SlotIdx(r.dev) : ~SlotOf(r.dev, i).assigned
               \/ Sealed(caps, r.dev)

\* C10: once free_trace has returned OK, and until alloc_trace is asked,
\* a free_trace returns BadState.
C10_Original ==
    trace_freed =>
        \A in \in WellFormed("FREE_TRACE") :
            Run(caps, dev, "FREE_TRACE", in).ret = ZX_ERR_BAD_STATE

\* No io_buffer is released twice and none that is not live.
ReleasesOnce(rel, live) ==
    /\ Range(rel) \subseteq live
    /\ \A i, j \in 1..Len(rel) : rel[i] = rel[j] => i = j

\* C11: device release is safe from every reachable state: it never
\* walks num_traces entries of an absent trace vector and never releases
\* a buffer twice.
C11_Original ==
    /\ released \in {"no", "done"}
    /\ released = "no" =>
            \A env \in ReleaseEnvs, ub \in NullWalkOutcomes :
                ReleasesOnce(insntrace_release(dev, env, ub).rel, dma_live)

\* C12: after device release from any reachable state, every chunk and
\* every ToPA table the device still owned has been released.
C12_Original == released # "no" => dma_live = {}

\* The privileged FREE_TRACE was called during r and refused.
FreeTraceRefused(r) ==
    \E k \in 1..Len(r.calls) :
        r.calls[k].action = "FREE_TRACE" /\ r.calls[k].status # ZX_OK

\* C13: if the privileged FREE_TRACE fails during free_trace, the device
\* is unusable: every operation requested next returns BadState.
C13_Original ==
    released = "no" =>
        \A in \in WellFormed("FREE_TRACE") :
            LET r == Run(caps, dev, "FREE_TRACE", in)
            IN  FreeTraceRefused(r) =>
                    \A o \in Ops : \A nxt \in WellFormed(o) :
                        Run(caps, r.dev, o, nxt).ret = ZX_ERR_BAD_STATE

\* An io_buffer_init(_aligned) call made by alloc_buffer on input in fails:
\* the request passes validation, a slot is free, and the allocation that
\* the allocator refuses is reached.
DmaFails(c, d, in) ==
    /\ Present(d)
    /\ ValidateBufferConfig(c, in.rq.buffer) = ZX_OK
    /\ FindUnallocated(d) < d.num_traces
    /\ \/ in.env.io.kind = "chunk_init"
       \/ /\ in.env.io.kind = "table_init"
          /\ \/ c.output_topa_multi
             \/ compute_topa_entry_count(in.rq.buffer.num_chunks) <= 2

\* C14: every error is surfaced verbatim: when a privileged call or a DMA
\* allocation made inside alloc_trace, free_trace, alloc_buffer, start or
\* stop fails with status e, the operation returns exactly e.
C14_Original ==
    released = "no" =>
        \A o \in {"ALLOC_TRACE", "FREE_TRACE", "ALLOC_BUFFER", "START",
                  "STOP"} :
            \A in \in WellFormed(o) :
                LET r == Run(caps, dev, o, in)
                IN  /\ \A k \in 1..Len(r.calls) :
                            r.calls[k].status # ZX_OK
                                => r.ret = r.calls[k].status
                    /\ o = "ALLOC_BUFFER" /\ DmaFails(caps, dev, in)
                            => r.ret = in.env.io.err

\* The privileged ALLOC_TRACE was called during r and refused.
AllocTraceRefused(r) ==
    \E k \in 1..Len(r.calls) :
        r.calls[k].action = "ALLOC_TRACE" /\ r.calls[k].status # ZX_OK

\* C15: when the privileged ALLOC_TRACE fails, alloc_trace returns that
\* error and leaves no trace vector: every other operation requested next
\* returns BadState, and an alloc_trace requested next does not return
\* BadState unless the kernel answers it so.
C15_AllocTraceUndone ==
    released = "no" =>
        \A in \in WellFormed("ALLOC_TRACE") :
            LET r == Run(caps, dev, "ALLOC_TRACE", in)
            IN  AllocTraceRefused(r) =>
                    /\ r.ret = in.env.st
                    /\ r.ret # ZX_OK
                    /\ ~Present(r.dev)
                    /\ ~r.dev.active
                    /\ \A o \in Ops \ {"ALLOC_TRACE"} :
                            \A nxt \in Inputs(o) :
                                Run(caps, r.dev, o, nxt).ret = ZX_ERR_BAD_STATE
                    /\ \A nxt \in Inputs("ALLOC_TRACE") :
                            nxt.env.st = ZX_OK =>
                                Run(caps, r.dev, "ALLOC_TRACE", nxt).ret
                                    # ZX_ERR_BAD_STATE
                    /\ Run(caps, r.dev, "ALLOC_TRACE",
                           In(Rq("ok", GoodTraceConfig, NoBufferConfig, 0, 0),
                              EnvOk)).ret = ZX_OK

\* An alloc_trace was refused by the kernel or after a free_trace: the
\* vector is absent though num_traces is set, and a refused ALLOC_TRACE
\* can happen next.
C15_Witness ==
    /\ released = "no"
    /\ ~Present(dev)
    /\ dev.num_traces = NumCpus
    /\ ~trace_freed
    /\ \E in \in WellFormed("ALLOC_TRACE") :
            LET r == Run(caps, dev, "ALLOC_TRACE", in)
            IN  AllocTraceRefused(r) /\ r.ret = ZX_ERR_ACCESS_DENIED

\* C16: alloc_trace asked for thread mode while no trace is allocated
\* returns NotSupported whatever num_traces is, calls nothing and changes
\* nothing, so a get_trace_config requested next returns BadState.
C16_ThreadsModeNotSupported ==
    released = "no" /\ ~Present(dev) =>
        \A in \in WellFormed("ALLOC_TRACE") :
            in.rq.config.mode = IPT_MODE_THREADS =>
                LET r == Run(caps, dev, "ALLOC_TRACE", in)
                IN  /\ r.ret = ZX_ERR_NOT_SUPPORTED
                    /\ r.dev = dev
                    /\ r.calls = << >>
                    /\ \A nxt \in Inputs("GET_TRACE_CONFIG") :
                            Run(caps, r.dev, "GET_TRACE_CONFIG", nxt).ret
                                = ZX_ERR_BAD_STATE

\* On a cpu with ToPA output, with no vector after an earlier trace was
\* freed, thread mode is asked for with 0, 1, NumCpus and more than
\* IPT_MAX_NUM_TRACES traces.
C16_Witness ==
    /\ released = "no"
    /\ caps.output_topa
    /\ ~Present(dev)
    /\ trace_freed
    /\ \A n \in {0, 1, NumCpus, IPT_MAX_NUM_TRACES + 1} :
            \E in \in WellFormed("ALLOC_TRACE") :
                /\ in.rq.config = TraceConfig(IPT_MODE_THREADS, n)
                /\ Run(caps, dev, "ALLOC_TRACE", in).ret
                        = ZX_ERR_NOT_SUPPORTED

\* C17: after a successful alloc_trace(mode, n), get_trace_config replies
\* with mode equal to the mode given and num_traces equal to n.
C17_Original ==
    released = "no" =>
        \A in \in WellFormed("ALLOC_TRACE") :
            LET r == Run(caps, dev, "ALLOC_TRACE", in)
            IN  r.ret = ZX_OK =>
                    \A nxt \in WellFormed("GET_TRACE_CONFIG") :
                        LET g == Run(caps, r.dev, "GET_TRACE_CONFIG", nxt)
                        IN  /\ g.ret = ZX_OK
                            /\ g.reply.mode = in.rq.config.mode
                            /\ g.reply.num_traces = in.rq.config.num_traces

\* The descriptors whose slot is not allocated.
FreeSlots(d) == {i \in SlotIdx(d) : ~SlotOf(d, i).allocated}

\* C18: for an alloc_buffer request that passes validation: if every slot
\* is allocated it returns NoResources; if it succeeds it returns the
\* lowest descriptor whose slot was not allocated before the call; and
\* when some slot is free, NoResources is returned only if the DMA
\* allocator itself failed with that status.
C18_LowestFreeSlot ==
    released = "no" /\ Present(dev) =>
        \A in \in WellFormed("ALLOC_BUFFER") :
            ValidateBufferConfig(caps, in.rq.buffer) = ZX_OK =>
                LET r == Run(caps, dev, "ALLOC_BUFFER", in)
                    free == FreeSlots(dev)
                IN  /\ free = {} => r.ret = ZX_ERR_NO_RESOURCES
                    /\ r.ret = ZX_OK =>
                            /\ free # {}
                            /\ \A j \in free : r.reply[1] <= j
                            /\ r.reply[1] \in free
                            /\ SlotAllocated(r.dev, r.reply[1])
                    /\ free # {} /\ r.ret = ZX_ERR_NO_RESOURCES =>
                            /\ in.env.io.kind = "chunk_init"
                            /\ in.env.io.err = ZX_ERR_NO_RESOURCES

\* Descriptor 0 was freed while descriptor 1 is still allocated, and the
\* next alloc_buffer returns descriptor 0.
C18_Witness ==
    /\ released = "no"
    /\ Present(dev)
    /\ FreeSlots(dev) = {0}
    /\ NumCpus > 1
    /\ Run(caps, dev, "ALLOC_BUFFER",
           In(Rq("ok", NoTraceConfig, CfgA, 0, 0), EnvOk)).reply = <<0>>

\* C19: in every reachable state, every slot that is not allocated has
\* empty chunks and topas and all numeric fields zero (num_chunks,
\* chunk_order, num_tables and the saved registers).
C19_Original ==
    Present(dev) =>
        \A i \in SlotIdx(dev) :
            LET s == SlotOf(dev, i)
            IN  ~s.allocated =>
                    /\ s.chunks = NULL
                    /\ s.topas = NULL
                    /\ s.num_chunks = 0
                    /\ s.chunk_order = 0
                    /\ s.num_tables = 0
                    /\ SlotRegs(s) = SlotRegs(ZeroSlot)

\* The field a single-bit ctl sets, and the value it gives that field.
CtlField(ctl) == CHOOSE f \in DOMAIN ctl : TRUE
CtlValue(ctl) == ctl[CtlField(ctl)]

\* Whether the capabilities c make field f settable.
Settable(c, f) ==
    CASE f \in {"OS_ALLOWED", "USER_ALLOWED", "TSC_EN", "DIS_RETC",
                "BRANCH_EN"} -> TRUE
      [] f \in {"PTW_EN", "FUP_ON_PTW"} -> c.ptwrite
      [] f = "CR3_FILTER" -> c.cr3_filtering
      [] f \in {"MTC_EN", "MTC_FREQ"} -> c.mtc
      [] f = "POWER_EVENT_EN" -> c.power_events
      [] f = "ADDR0" -> c.ip_filtering /\ c.num_addr_ranges >= 1
      [] f = "ADDR1" -> c.ip_filtering /\ c.num_addr_ranges >= 2
      [] f = "ADDR2" -> c.ip_filtering /\ c.num_addr_ranges >= 3
      [] f = "ADDR3" -> c.ip_filtering /\ c.num_addr_ranges >= 4
      [] f \in {"CYC_EN", "PSB_FREQ", "CYC_THRESH"} -> c.psb
      [] OTHER -> FALSE

\* Whether the cpu lists value v as legal for field f (every value is,
\* for a field without a legal-value mask).
LegalValue(c, f, v) ==
    CASE f = "MTC_FREQ" -> v \in c.mtc_freq_mask
      [] f = "CYC_THRESH" -> v \in c.cyc_thresh_mask
      [] f = "PSB_FREQ" -> v \in c.psb_freq_mask
      [] OTHER -> TRUE

\* C20 as stated: on every capability record, a request whose single ctl
\* bit is outside the settable mask is rejected with InvalidArgs, and one
\* whose bit is inside it is accepted by the validation.
C20_Original ==
    released = "no" /\ Present(dev) =>
        \A ctl \in SingleBitCtls :
            LET r == Run(caps, dev, "ALLOC_BUFFER", CtlRequest(ctl))
            IN  IF Settable(caps, CtlField(ctl))
                THEN r.ret # ZX_ERR_INVALID_ARGS
                ELSE r.ret = ZX_ERR_INVALID_ARGS /\ r.dev = dev

\* C20: on every capability record, a request whose single ctl bit is
\* outside the settable mask is rejected with InvalidArgs and changes
\* nothing; one whose bit is inside it is accepted by the validation if
\* the value it gives MTC_FREQ, CYC_THRESH or PSB_FREQ is one the cpu
\* lists as legal, and rejected with InvalidArgs if it is not.
C20_CtlValidation ==
    released = "no" /\ Present(dev) =>
        \A ctl \in SingleBitCtls :
            LET r == Run(caps, dev, "ALLOC_BUFFER", CtlRequest(ctl))
                f == CtlField(ctl)
            IN  IF Settable(caps, f) /\ LegalValue(caps, f, CtlValue(ctl))
                THEN /\ r.ret \in {ZX_OK, ZX_ERR_NO_RESOURCES}
                     /\ r.ret = ZX_OK =>
                            SlotOf(r.dev, r.reply[1]).ctl = ctl
                ELSE r.ret = ZX_ERR_INVALID_ARGS /\ r.dev = dev

\* A cpu with mtc and psb but without cr3 filtering, ptwrite and the
\* fourth address range, whose legal MTC_FREQ values include 2 and not
\* 1: a buffer was accepted with MTC_FREQ = 2, ADDR2 is accepted, and
\* MTC_FREQ = 1, CR3_FILTER and ADDR3 are rejected.
C20_Witness ==
    /\ released = "no"
    /\ Present(dev)
    /\ caps.mtc /\ caps.psb /\ caps.ip_filtering
    /\ ~caps.cr3_filtering /\ ~caps.ptwrite
    /\ SlotAllocated(dev, 0) /\ CtlGet(SlotOf(dev, 0).ctl, "MTC_FREQ") = 2
    /\ Run(caps, dev, "ALLOC_BUFFER", CtlRequest([ADDR2 |-> 8])).ret = ZX_OK
    /\ Run(caps, dev, "ALLOC_BUFFER", CtlRequest([MTC_FREQ |-> 1])).ret
            = ZX_ERR_INVALID_ARGS
    /\ Run(caps, dev, "ALLOC_BUFFER", CtlRequest([CR3_FILTER |-> 1])).ret
            = ZX_ERR_INVALID_ARGS
    /\ Run(caps, dev, "ALLOC_BUFFER", CtlRequest([ADDR3 |-> 1])).ret
            = ZX_ERR_INVALID_ARGS

\* The hardware mask of legal values of sub-field f.
HwMask(c, f) ==
    CASE f = "MTC_FREQ" -> c.mtc_freq_mask
      [] f = "CYC_THRESH" -> c.cyc_thresh_mask
      [] f = "PSB_FREQ" -> c.psb_freq_mask

\* C21: a buffer request whose ctl passes the settable-mask check is
\* rejected with InvalidArgs if and only if one of MTC_FREQ, CYC_THRESH,
\* PSB_FREQ holds a nonzero value v whose bit v is clear in the hardware
\* mask of that sub-field; a zero value is accepted whatever the mask.
C21_SubFieldValidation ==
    released = "no" /\ Present(dev) =>
        \A ctl \in SubFieldCtls :
            LET r == Run(caps, dev, "ALLOC_BUFFER", CtlRequest(ctl))
                bad == {f \in SubFields :
                          /\ CtlGet(ctl, f) # 0
                          /\ CtlGet(ctl, f) \notin HwMask(caps, f)}
            IN  (\A f \in DOMAIN ctl : Settable(caps, f)) =>
                    /\ r.ret = ZX_ERR_INVALID_ARGS <=> bad # {}
                    /\ bad # {} => r.dev = dev
                    /\ bad = {} => r.ret \in {ZX_OK, ZX_ERR_NO_RESOURCES}

\* On a cpu with mtc and psb whose masks list MTC_FREQ 3 and PSB_FREQ 8
\* but not CYC_THRESH 3, a buffer was accepted with MTC_FREQ = 3 and
\* PSB_FREQ = 8 and CYC_THRESH = 0, and the same request with
\* CYC_THRESH = 3 is rejected.
C21_Witness ==
    /\ released = "no"
    /\ Present(dev)
    /\ caps.mtc /\ caps.psb
    /\ 3 \in caps.mtc_freq_mask /\ 3 \notin caps.cyc_thresh_mask
    /\ SlotAllocated(dev, 0)
    /\ CtlGet(SlotOf(dev, 0).ctl, "MTC_FREQ") = 3
    /\ CtlGet(SlotOf(dev, 0).ctl, "PSB_FREQ") = 8
    /\ CtlGet(SlotOf(dev, 0).ctl, "CYC_THRESH") = 0
    /\ \E ctl \in SubFieldCtls :
          /\ CtlGet(ctl, "MTC_FREQ") = 3 /\ CtlGet(ctl, "CYC_THRESH") = 3
          /\ CtlGet(ctl, "PSB_FREQ") = 8
          /\ Run(caps, dev, "ALLOC_BUFFER", CtlRequest(ctl)).ret
                = ZX_ERR_INVALID_ARGS

\* ------------------------------------------------- the ToPA tables
\* The least q with q * b >= a.
Ceil(a, b) == CHOOSE q \in 0..(a + 1) : q * b >= a /\ (q - 1) * b < a
AllocatedSlots(d) == {SlotOf(d, i) : i \in {j \in SlotIdx(d) : SlotOf(d, j).allocated}}
\* The tables of slot s, and the slots of table t that hold data and END
\* entries.
TablesOf(s) == make_topa(s).tables
TableSlots == 0..(IPT_TOPA_MAX_TABLE_ENTRIES - 1)
DataSlots(t) == {e \in TableSlots : ~t[e].end /\ t[e] # ZeroEntry}
EndSlots(t) == {e \in TableSlots : t[e].end}
\* The chunks described by table i of a slot with n chunks.
DataInTable(n, i) ==
    LET cap == IPT_TOPA_MAX_TABLE_ENTRIES - 1
    IN  IF n - i * cap >= cap THEN cap
        ELSE IF n - i * cap > 0 THEN n - i * cap ELSE 0
RECURSIVE SumOver(_, _)
SumOver(f, S) ==
    IF S = {} THEN 0
    ELSE LET x == CHOOSE y \in S : TRUE IN f[x] + SumOver(f, S \ {x})

\* C22 as stated: num_tables = ceil((num_chunks + num_end_entries) /
\* TABLE_ENTRIES) with num_end_entries = ceil((num_chunks - 1) /
\* (TABLE_ENTRIES - 1)), and the builder's entry count is num_chunks +
\* num_end_entries and at least 2.
C22_Original ==
    \A s \in AllocatedSlots(dev) :
        LET num_end_entries ==
                Ceil(s.num_chunks - 1, IPT_TOPA_MAX_TABLE_ENTRIES - 1)
        IN  /\ s.num_tables = Ceil(s.num_chunks + num_end_entries,
                                   IPT_TOPA_MAX_TABLE_ENTRIES)
            /\ compute_topa_entry_count(s.num_chunks)
                    = s.num_chunks + num_end_entries
            /\ s.num_chunks + num_end_entries >= 2

\* C22: for every allocated slot, num_tables = ceil((num_chunks +
\* num_end_entries) / TABLE_ENTRIES) with num_end_entries =
\* ceil(num_chunks / (TABLE_ENTRIES - 1)); the builder's entry count is
\* num_chunks + num_end_entries, it is at least 2, and it is the number
\* of entries the tables hold.
C22_TableCount ==
    \A s \in AllocatedSlots(dev) :
        LET num_end_entries ==
                Ceil(s.num_chunks, IPT_TOPA_MAX_TABLE_ENTRIES - 1)
            tabs == TablesOf(s)
            written == [t \in 1..s.num_tables |->
                          Cardinality(DataSlots(tabs[t]))
                          + Cardinality(EndSlots(tabs[t]))]
        IN  /\ s.num_tables = Ceil(s.num_chunks + num_end_entries,
                                   IPT_TOPA_MAX_TABLE_ENTRIES)
            /\ compute_topa_entry_count(s.num_chunks)
                    = s.num_chunks + num_end_entries
            /\ s.num_chunks + num_end_entries >= 2
            /\ SumOver(written, 1..s.num_tables)
                    = s.num_chunks + num_end_entries

\* Slots are allocated with one chunk (one table of two entries) and with
\* TABLE_ENTRIES chunks (two tables, two END entries).
C22_Witness ==
    /\ \E s \in AllocatedSlots(dev) : s.num_chunks = 1 /\ s.num_tables = 1
    /\ \E s \in AllocatedSlots(dev) :
          /\ s.num_chunks = IPT_TOPA_MAX_TABLE_ENTRIES
          /\ s.num_tables = 2

\* C23 as stated: slot TABLE_ENTRIES-1 of every table i of an allocated
\* slot holds an END entry pointing to table (i+1) mod num_tables.
C23_Original ==
    \A s \in AllocatedSlots(dev) :
        \A i \in 0..(s.num_tables - 1) :
            TablesOf(s)[i + 1][IPT_TOPA_MAX_TABLE_ENTRIES - 1]
                = EndEntry(s.topas[((i + 1) % s.num_tables) + 1])

\* C23: every table i of an allocated slot holds exactly one END entry,
\* right after its data entries (in slot TABLE_ENTRIES-1 when the table
\* is full, in the first empty slot of a partially filled last table),
\* and it points to table (i+1) mod num_tables.
C23_Ring ==
    \A s \in AllocatedSlots(dev) :
        \A i \in 0..(s.num_tables - 1) :
            LET t == TablesOf(s)[i + 1]
                k == DataInTable(s.num_chunks, i)
            IN  /\ EndSlots(t) = {k}
                /\ t[k] = EndEntry(s.topas[((i + 1) % s.num_tables) + 1])
                /\ \A e \in TableSlots : e > k => t[e] = ZeroEntry

\* A slot with three tables, the last of them partially filled.
C23_Witness ==
    \E s \in AllocatedSlots(dev) :
        /\ s.num_tables = 3
        /\ DataInTable(s.num_chunks, 2) \in 1..(IPT_TOPA_MAX_TABLE_ENTRIES - 2)
        /\ TablesOf(s)[1][IPT_TOPA_MAX_TABLE_ENTRIES - 1].addr = s.topas[2]
        /\ TablesOf(s)[3][DataInTable(s.num_chunks, 2)] = EndEntry(s.topas[1])

\* C24: in every allocated slot the entry of the last chunk has STOP set
\* if and only if the buffer is not circular, and no other entry of any
\* table has STOP set.
C24_StopBit ==
    \A s \in AllocatedSlots(dev) :
        LET last == s.num_chunks - 1
            lt == last \div (IPT_TOPA_MAX_TABLE_ENTRIES - 1)
            li == last % (IPT_TOPA_MAX_TABLE_ENTRIES - 1)
            tabs == TablesOf(s)
        IN  \A i \in 0..(s.num_tables - 1), e \in TableSlots :
                tabs[i + 1][e].stop
                    <=> (~s.is_circular /\ i = lt /\ e = li)

\* A circular and a non-circular buffer are allocated, the non-circular
\* one with more than one table.
C24_Witness ==
    /\ \E s \in AllocatedSlots(dev) : s.is_circular
    /\ \E s \in AllocatedSlots(dev) :
          /\ ~s.is_circular /\ s.num_tables > 1
          /\ \E e \in TableSlots : TablesOf(s)[s.num_tables][e].stop

\* C25: in every allocated slot, chunk i is described by entry
\* i mod (TABLE_ENTRIES-1) of table i div (TABLE_ENTRIES-1), with the
\* chunk's physical address and chunk_order + page_shift as the size; the
\* tables hold num_chunks data entries, no table more than
\* TABLE_ENTRIES-1 of them and one END entry, and no write falls outside
\* the num_tables tables.
C25_DataEntries ==
    \A s \in AllocatedSlots(dev) :
        LET cap == IPT_TOPA_MAX_TABLE_ENTRIES - 1
            built == make_topa(s)
            tabs == built.tables
            data == [t \in 1..s.num_tables |-> Cardinality(DataSlots(tabs[t]))]
        IN  /\ \A i \in 0..(s.num_chunks - 1) :
                  /\ i \div cap < s.num_tables
                  /\ LET e == tabs[(i \div cap) + 1][i % cap]
                     IN  /\ e.addr = s.chunks[i + 1]
                         /\ e.size = s.chunk_order + PAGE_SIZE_SHIFT
                         /\ ~e.end
            /\ SumOver(data, 1..s.num_tables) = s.num_chunks
            /\ \A t \in 1..s.num_tables :
                  /\ data[t] <= cap
                  /\ Cardinality(EndSlots(tabs[t])) <= 1
            /\ ~built.oob
            /\ Len(tabs) = s.num_tables

\* A slot whose chunks fill two tables and start a third.
C25_Witness ==
    \E s \in AllocatedSlots(dev) :
        /\ s.num_chunks = 2 * (IPT_TOPA_MAX_TABLE_ENTRIES - 1) + 2
        /\ s.chunk_order = 1
        /\ TablesOf(s)[3][1].addr = s.chunks[s.num_chunks]

\* C26 as stated: with num_chunks = TABLE_ENTRIES + 5 there are two
\* tables, table 0 ends in an END entry pointing to table 1, and table 1
\* holds 5 data entries in slots 0..4 and its END entry, pointing to
\* table 0, in slot 5.
C26_Original ==
    \A s \in AllocatedSlots(dev) :
        s.num_chunks = IPT_TOPA_MAX_TABLE_ENTRIES + 5 =>
            /\ s.num_tables = 2
            /\ TablesOf(s)[1][IPT_TOPA_MAX_TABLE_ENTRIES - 1]
                    = EndEntry(s.topas[2])
            /\ DataSlots(TablesOf(s)[2]) = 0..4
            /\ TablesOf(s)[2][5] = EndEntry(s.topas[1])

\* C26: with num_chunks = TABLE_ENTRIES + 5 there are two tables, table 0
\* holds TABLE_ENTRIES-1 data entries and ends in an END entry pointing
\* to table 1, and table 1 holds 6 data entries in slots 0..5 and its END
\* entry, pointing to table 0, in slot 6.
C26_TwoTables ==
    \A s \in AllocatedSlots(dev) :
        s.num_chunks = IPT_TOPA_MAX_TABLE_ENTRIES + 5 =>
            /\ s.num_tables = 2
            /\ DataSlots(TablesOf(s)[1])
                    = 0..(IPT_TOPA_MAX_TABLE_ENTRIES - 2)
            /\ TablesOf(s)[1][IPT_TOPA_MAX_TABLE_ENTRIES - 1]
                    = EndEntry(s.topas[2])
            /\ DataSlots(TablesOf(s)[2]) = 0..5
            /\ TablesOf(s)[2][6] = EndEntry(s.topas[1])

\* A buffer of TABLE_ENTRIES + 5 chunks is allocated.
C26_Witness ==
    \E s \in AllocatedSlots(dev) :
        /\ s.num_chunks = IPT_TOPA_MAX_TABLE_ENTRIES + 5
        /\ TablesOf(s)[2][5].addr = s.chunks[s.num_chunks]

\* --------------------------------------------- single-entry ToPA
\* The slot a buffer request would be given.
FreeSlotExists(d) == \E i \in SlotIdx(d) : ~SlotOf(d, i).allocated
FirstFreeSlot(d) ==
    CHOOSE i \in SlotIdx(d) :
        /\ ~SlotOf(d, i).allocated
        /\ \A j \in SlotIdx(d) : ~SlotOf(d, j).allocated => i <= j

\* C27: on a cpu without multi-entry ToPA output every allocated slot has
\* an entry count of at most 2 (one chunk and the END entry); a request
\* that reaches the builder with more chunks is answered NotSupported,
\* its slot stays unallocated, and every chunk initialised for it is
\* released again.
C27_SingleEntryTopa ==
    ~caps.output_topa_multi =>
        /\ \A s \in AllocatedSlots(dev) : s.num_chunks + 1 <= 2
        /\ FreeSlotExists(dev) =>
             \A num \in TopaChunks, order \in TopaOrders, circ \in BOOLEAN :
                LET r == Run(caps, dev, "ALLOC_BUFFER",
                             TopaRequest(num, order, circ, IoOk))
                    slot == FirstFreeSlot(dev)
                IN  IF num = 1
                    THEN r.ret = ZX_OK /\ SlotOf(r.dev, slot).allocated
                    ELSE /\ r.ret = ZX_ERR_NOT_SUPPORTED
                         /\ ~SlotOf(r.dev, slot).allocated
                         /\ SlotOf(r.dev, slot).chunks = NULL
                         /\ Len(r.acq) = num
                         /\ r.rel = r.acq
                         /\ \A i \in SlotIdx(dev) \ {slot} :
                               SlotOf(r.dev, i) = SlotOf(dev, i)

\* A cpu with single-entry ToPA output holds a one-chunk buffer in slot 0
\* and refuses a two-chunk buffer for slot 1.
C27_Witness ==
    /\ caps.output_topa /\ ~caps.output_topa_multi
    /\ SlotAllocated(dev, 0) /\ SlotOf(dev, 0).num_chunks = 1
    /\ FreeSlotExists(dev)
    /\ Run(caps, dev, "ALLOC_BUFFER", TopaRequest(2, 0, TRUE, IoOk)).ret
            = ZX_ERR_NOT_SUPPORTED

\* The allocator's answers to a request of num chunks with one chunk
\* that has a low address bit set.
Misaligning(num, order) ==
    {Io("misaligned", i, ZX_OK) : i \in 0..(num - 1)}
    \cup (IF order > 0
          THEN {Io("page_aligned", i, ZX_OK) : i \in 0..(num - 1)}
          ELSE {})

\* C28: every chunk of every allocated slot lies at a multiple of
\* 2^(page_shift + chunk_order); a request for which the allocator hands
\* back a chunk with a lower address bit set is answered Internal and
\* its slot stays unallocated.
C28_ChunkAlignment ==
    /\ \A s \in AllocatedSlots(dev) :
          /\ Len(s.chunks) = s.num_chunks
          /\ \A i \in 1..s.num_chunks :
                s.chunks[i] % 2^(PAGE_SIZE_SHIFT + s.chunk_order) = 0
    /\ FreeSlotExists(dev) /\ caps.output_topa_multi =>
          \A num \in {1, 2, MaxTopaChunks}, order \in TopaOrders :
             \A io \in Misaligning(num, order) :
                LET r == Run(caps, dev, "ALLOC_BUFFER",
                             TopaRequest(num, order, FALSE, io))
                IN  /\ r.ret = ZX_ERR_INTERNAL
                    /\ ~SlotOf(r.dev, FirstFreeSlot(dev)).allocated
                    /\ AllocatedSlots(r.dev) = AllocatedSlots(dev)

\* A buffer of order 0 holds a chunk aligned to a page only, and the same
\* chunk is refused for a buffer of order 1.
C28_Witness ==
    /\ \E s \in AllocatedSlots(dev) :
          /\ s.chunk_order = 0
          /\ \E i \in 1..s.num_chunks : s.chunks[i] % (2 * PAGE_SIZE) # 0
    /\ FreeSlotExists(dev)
    /\ Run(caps, dev, "ALLOC_BUFFER",
           TopaRequest(2, 1, FALSE, Io("page_aligned", 1, ZX_OK))).ret
            = ZX_ERR_INTERNAL

\* C29: whatever register snapshot an allocated slot holds, the capture
\* size get_buffer_info reports for it is at most
\* num_chunks * 2^chunk_order * PAGE_SIZE.
C29_CaptureBound ==
    \A d \in SlotIdx(dev) :
        LET r == Run(caps, dev, "GET_BUFFER_INFO", In(RqDesc(d, 0), EnvOk))
            s == SlotOf(dev, d)
        IN  r.ret = ZX_OK =>
                /\ s.allocated
                /\ r.reply.capture_end >= 0
                /\ r.reply.capture_end
                        <= s.num_chunks * 2^s.chunk_order * PAGE_SIZE

\* After a stop, a slot of three tables whose last region was filled
\* reports its whole size.
C29_Witness ==
    \E d \in SlotIdx(dev) :
        LET s == SlotOf(dev, d)
            r == Run(caps, dev, "GET_BUFFER_INFO", In(RqDesc(d, 0), EnvOk))
        IN  /\ s.allocated /\ s.num_tables = 3 /\ s.chunk_order = 1
            /\ s.output_base = s.topas[3]
            /\ r.ret = ZX_OK
            /\ r.reply.capture_end = s.num_chunks * 2 * PAGE_SIZE

\* The answers of zx_object_get_info and zx_handle_duplicate.
HandleEnvs ==
    {[EnvOk EXCEPT !.st = a, !.st2 = b] :
        a \in {ZX_OK, ZX_ERR_BAD_STATE}, b \in {ZX_OK, ZX_ERR_ACCESS_DENIED}}

\* C30: get_chunk_handle(d, k) returns a handle only when slot d is
\* allocated and k < num_chunks, and InvalidArgs when it is not; the
\* handle names chunk k and carries the rights of the chunk's memory
\* object that are among TRANSFER, WAIT, INSPECT, GET_PROPERTY, READ and
\* MAP, and no other right, in particular not WRITE.
C30_ChunkHandle ==
    Present(dev) =>
        \A d \in Descriptors, k \in 0..MaxTopaChunks :
            LET ok == SlotAllocated(dev, d) /\ k < SlotOf(dev, d).num_chunks
                r == Run(caps, dev, "GET_CHUNK_HANDLE", In(RqDesc(d, k), EnvOk))
            IN  /\ r.dev = dev
                /\ IF ok
                   THEN /\ r.ret = ZX_OK
                        /\ r.reply.vmo = SlotOf(dev, d).chunks[k + 1]
                        /\ r.reply.rights
                              = VmoRights \cap {"TRANSFER", "WAIT", "INSPECT",
                                                "GET_PROPERTY", "READ", "MAP"}
                        /\ "WRITE" \notin r.reply.rights
                   ELSE r.ret = ZX_ERR_INVALID_ARGS
                /\ k \in {0, MaxTopaChunks} =>
                      \A env \in HandleEnvs \ {EnvOk} :
                          LET q == Run(caps, dev, "GET_CHUNK_HANDLE",
                                       In(RqDesc(d, k), env))
                          IN  /\ q.ret # ZX_OK
                              /\ ~ok => q.ret = ZX_ERR_INVALID_ARGS

\* The last chunk of a three-table buffer is handed out with READ and
\* MAP, the chunk after it is refused, and so is chunk 0 of a slot that
\* is not allocated.
C30_Witness ==
    \E d, e \in SlotIdx(dev) :
        LET s == SlotOf(dev, d)
            r == Run(caps, dev, "GET_CHUNK_HANDLE",
                     In(RqDesc(d, s.num_chunks - 1), EnvOk))
        IN  /\ s.allocated /\ s.num_tables = 3
            /\ r.ret = ZX_OK
            /\ {"READ", "MAP"} \subseteq r.reply.rights
            /\ "WRITE" \in VmoRights
            /\ Run(caps, dev, "GET_CHUNK_HANDLE",
                   In(RqDesc(d, s.num_chunks), EnvOk)).ret
                    = ZX_ERR_INVALID_ARGS
            /\ ~SlotOf(dev, e).allocated
            /\ Run(caps, dev, "GET_CHUNK_HANDLE", In(RqDesc(e, 0), EnvOk)).ret
                    = ZX_ERR_INVALID_ARGS

\* ------------------------------------------------ the device mutex
\* The threads inside a section that changes the device: between the
\* test and the store of insntrace_open, or between mtx_lock and
\* mtx_unlock of insntrace_ioctl.
Inside == {t \in Threads : pc[t] # "idle"}

\* A step that changes the device or its open flag is taken by the
\* holder of the mutex.
MutatesUnderLock ==
    (dev' # dev \/ opened' # opened) => lock # NoThread /\ lock' = lock

\* C31: every operation that changes the device state does so holding
\* the device mutex for the whole operation; no two threads are inside a
\* state-changing section at once; a thread that has returned does not
\* hold the mutex.
C31_Original ==
    /\ [][MutatesUnderLock]_vars
    /\ [](Cardinality(Inside) <= 1)
    /\ [](\A t \in Threads : pc[t] = "idle" => lock # t)

\* C32: between two closes at most one open returns ZX_OK.
C32_Original == opens_ok <= 1

\* --------------------------------------------- rollback of a buffer
\* The ways the allocator can fail a request of num chunks that needs
\* `tables` tables.
FailingIo(num, tables) ==
    {Io("calloc_chunks", 0, ZX_ERR_NO_MEMORY),
     Io("calloc_topas", 0, ZX_ERR_NO_MEMORY)}
    \cup {Io("chunk_init", j, e) : j \in 0..(num - 1), e \in AllocErrs}
    \cup {Io("misaligned", j, ZX_OK) : j \in 0..(num - 1)}
    \cup {Io("table_init", t, e) : t \in 0..(tables - 1), e \in AllocErrs}
\* The io_buffers initialised before the failure.
InitialisedBefore(io, num) ==
    CASE io.kind = "calloc_chunks" -> 0
      [] io.kind = "chunk_init" -> io.at
      [] io.kind = "misaligned" -> io.at + 1
      [] io.kind = "table_init" -> num + io.at
      [] OTHER -> num
\* The failed request r on device d for slot `slot` initialised n
\* io_buffers, released each of them once, and left the slot unallocated
\* and the rest of the device as it was.
RolledBack(r, d, slot, n) ==
    /\ r.ret # ZX_OK
    /\ Len(r.acq) = n /\ Len(r.rel) = n
    /\ Cardinality(Range(r.rel)) = n
    /\ Range(r.rel) = Range(r.acq)
    /\ ~SlotOf(r.dev, slot).allocated
    /\ SlotOf(r.dev, slot).chunks = NULL /\ SlotOf(r.dev, slot).topas = NULL
    /\ \A i \in SlotIdx(d) \ {slot} : SlotOf(r.dev, i) = SlotOf(d, i)
    /\ [r.dev EXCEPT !.per_trace_state = d.per_trace_state] = d

\* C33: an alloc_buffer that fails while its ToPA is built (a chunk
\* cannot be initialised or is misaligned, the entry count is refused, the
\* table array or a table cannot be allocated) releases every chunk and
\* table it initialised exactly once, leaves its slot unallocated and
\* changes no other slot.
C33_Rollback ==
    FreeSlotExists(dev) =>
        \A num \in {1, 2, MaxTopaChunks}, order \in TopaOrders :
            LET slot == FirstFreeSlot(dev)
                ok == Run(caps, dev, "ALLOC_BUFFER",
                          TopaRequest(num, order, FALSE, IoOk))
            IN  IF ok.ret # ZX_OK
                THEN RolledBack(ok, dev, slot, num)
                ELSE \A io \in FailingIo(num, SlotOf(ok.dev, slot).num_tables) :
                        RolledBack(Run(caps, dev, "ALLOC_BUFFER",
                                       TopaRequest(num, order, FALSE, io)),
                                   dev, slot, InitialisedBefore(io, num))

\* A request of the largest size was rolled back after its last chunk
\* came back misaligned, none of its chunks is held any more, and the
\* next request would fail on its third table.
C33_Witness ==
    \E i \in SlotIdx(dev) :
        LET s == SlotOf(dev, i)
            r == Run(caps, dev, "ALLOC_BUFFER",
                     TopaRequest(MaxTopaChunks, 0, FALSE,
                                 Io("table_init", 2, ZX_ERR_NO_RESOURCES)))
        IN  /\ ~s.allocated /\ s.num_chunks = MaxTopaChunks
            /\ s.chunks = NULL
            /\ \A k \in 0..(MaxTopaChunks - 1) : ChunkPa(i, k) \notin dma_live
            /\ i = FirstFreeSlot(dev)
            /\ r.ret = ZX_ERR_NO_MEMORY
            /\ Len(r.rel) = MaxTopaChunks + 2

\* ------------------------------------------------- release order
\* The address is that of a ToPA table (the allocator of the model gives
\* tables the addresses from TablePa(0, 0) up).
IsTablePa(pa) == pa >= TablePa(0, 0)
\* The requests that release the buffers of slots: free_buffer of a
\* descriptor, free_trace, and an alloc_buffer of three tables that fails
\* on its second or third table.
Releasing ==
    {<<"FREE_BUFFER", In(RqDesc(d, 0), EnvOk)>> : d \in Descriptors}
    \cup {<<"FREE_TRACE", In(RqPlain("ok"), EnvOk)>>}
    \cup {<<"ALLOC_BUFFER",
            TopaRequest(MaxTopaChunks, 0, FALSE,
                        Io("table_init", t, ZX_ERR_NO_MEMORY))>> :
            t \in {1, 2}}
\* The io_buffers of slot s.
BuffersOf(s) == Range(s.chunks) \cup Range(s.topas)
\* Within rel, the buffers of one slot (a slot of d, or the slot under
\* construction, whose buffers no slot of d holds) come as `first` then
\* the others, where first is IsTablePa or its negation: among the
\* buffers of the slot, in the order of rel, none of the others is
\* directly followed by one of the first.
InOrder(d, rel, tables_first) ==
    LET held == {BuffersOf(s) : s \in AllocatedSlots(d)}
        groups == held \cup {Range(rel) \ UNION held}
    IN  \A g \in groups :
            LET of_g(pa) == pa \in g
                sub == SelectSeq(rel, of_g)
            IN  \A k \in 1..(Len(sub) - 1) :
                    ~(/\ IsTablePa(sub[k]) # tables_first
                      /\ IsTablePa(sub[k + 1]) = tables_first)

\* C34 as stated: whenever a slot's buffers are released, all of its
\* tables are released before any of its chunks.
C34_Original ==
    Present(dev) =>
        \A q \in Releasing :
            InOrder(dev, Run(caps, dev, q[1], q[2]).rel, TRUE)

\* C34, amended: whenever a slot's buffers are released (free_buffer,
\* free_trace, rollback of a failed alloc_buffer), all of its chunks are
\* released before any of its tables.
C34_ChunksFirst ==
    Present(dev) =>
        \A q \in Releasing :
            InOrder(dev, Run(caps, dev, q[1], q[2]).rel, FALSE)

\* free_buffer of a three-table slot releases its first chunk first and
\* its third table last.
C34_Witness ==
    \E d \in SlotIdx(dev) :
        LET s == SlotOf(dev, d)
            rel == Run(caps, dev, "FREE_BUFFER", In(RqDesc(d, 0), EnvOk)).rel
        IN  /\ s.allocated /\ s.num_tables = 3
            /\ Len(rel) = s.num_chunks + 3
            /\ rel[1] = s.chunks[1]
            /\ rel[Len(rel)] = s.topas[3]

\* ------------------------------------------------ staged registers
\* The inputs of start: some STAGE_TRACE_DATA is refused, START is
\* refused, or every call is accepted.
StartInputs == WellFormed("START")

\* C35: every register block start hands to STAGE_TRACE_DATA for slot i
\* is the slot's saved block with TOPA and TRACE_EN added to ctl; start
\* leaves the saved registers as they were; TOPA and TRACE_EN are in no
\* settable mask, and a buffer request that sets either is refused, so
\* that the ctl alloc_buffer stores has neither.
C35_StagedRegs ==
    /\ \A in \in StartInputs :
          LET r == Run(caps, dev, "START", in)
          IN  /\ \A k \in 1..Len(r.calls) :
                    r.calls[k].action = "STAGE_TRACE_DATA" =>
                        LET s == SlotOf(dev, r.calls[k].descriptor)
                        IN  /\ r.calls[k].descriptor = k - 1
                            /\ r.calls[k].payload =
                                  [SlotRegs(s) EXCEPT
                                      !.ctl = CtlOr(s.ctl, {"TOPA", "TRACE_EN"})]
                            /\ CtlGet(r.calls[k].payload.ctl, "TOPA") = 1
                            /\ CtlGet(r.calls[k].payload.ctl, "TRACE_EN") = 1
              /\ Present(r.dev) =>
                    \A i \in SlotIdx(dev) :
                        SlotRegs(SlotOf(r.dev, i)) = SlotRegs(SlotOf(dev, i))
    /\ SettableCtlMask(caps) \cap {"TOPA", "TRACE_EN"} = {}
    \* (the masks of every capability record, which no state changes)
    /\ ~Present(dev) =>
          \A c \in CapsAll \cup CapsSet :
              SettableCtlMask(c) \cap {"TOPA", "TRACE_EN"} = {}
    /\ \A ctl \in SingleBitCtls \cup {CfgA.ctl, CfgB.ctl} :
          LET r == Run(caps, dev, "ALLOC_BUFFER", CtlRequest(ctl))
          IN  IF CtlGet(ctl, "TOPA") = 1 \/ CtlGet(ctl, "TRACE_EN") = 1
              THEN r.ret # ZX_OK /\ r.dev = dev
              ELSE r.ret = ZX_OK =>
                     LET s == SlotOf(r.dev, r.reply[1])
                     IN  /\ s.ctl = ctl
                         /\ CtlGet(s.ctl, "TOPA") = 0
                         /\ CtlGet(s.ctl, "TRACE_EN") = 0

\* Every slot holds a buffer with BRANCH_EN and neither TOPA nor
\* TRACE_EN in its saved ctl, and start stages one block per slot.
C35_Witness ==
    /\ Present(dev) /\ ~dev.active
    /\ \A i \in SlotIdx(dev) :
          /\ SlotOf(dev, i).allocated
          /\ CtlGet(SlotOf(dev, i).ctl, "BRANCH_EN") = 1
          /\ CtlGet(SlotOf(dev, i).ctl, "TOPA") = 0
    /\ LET r == Run(caps, dev, "START", In(RqPlain("ok"), EnvOk))
       IN  /\ r.ret = ZX_OK
           /\ Len(r.calls) = NumCpus + 1
           /\ r.calls[NumCpus].action = "STAGE_TRACE_DATA"
           /\ CtlGet(r.calls[NumCpus].payload.ctl, "BRANCH_EN") = 1

\* -------------------------------------------------- capture size
\* Slot s with the snapshot that names entry idx of the table at base,
\* offset off, and `low` in the seven low bits of output_mask_ptrs.
WithSnapshot(s, base, idx, off, low) ==
    [s EXCEPT !.output_base = base,
              !.output_mask_ptrs = U64(off, idx * 2^7 + low)]
\* The sum of 2^size over the first n data slots of the tables tabs, in
\* the order of the tables (slot TABLE_ENTRIES - 1 of a table is not a
\* data slot).
RECURSIVE SizeBefore(_, _)
SizeBefore(tabs, n) ==
    IF n = 0 THEN 0
    ELSE SizeBefore(tabs, n - 1)
         + 2^(tabs[((n - 1) \div (IPT_TOPA_MAX_TABLE_ENTRIES - 1)) + 1]
                  [(n - 1) % (IPT_TOPA_MAX_TABLE_ENTRIES - 1)].size)

\* C36: the capture size of a slot is the sum of 2^size over the entries
\* that precede the entry the snapshot names (the table at output_base,
\* the entry index in bits 7..31 of output_mask_ptrs), plus the offset in
\* bits 32..63; it is 0 when output_base is the address of no table of the
\* slot or the entry index is not below TABLE_ENTRIES - 1, and 0 for a
\* slot that holds the registers alloc_buffer gave it.  The walk reads the
\* tables make_topa wrote for the slot, which a snapshot does not change.
C36_CaptureSize ==
    \A s \in AllocatedSlots(dev) :
        LET tabs == TablesOf(s)
            region == 2^(s.chunk_order + PAGE_SIZE_SHIFT)
            last == IPT_TOPA_MAX_TABLE_ENTRIES - 2
            \* <<entry index, offset, low bits>>
            stops == {<<0, 0, 2^7 - 1>>, <<1, region, 0>>, <<last, 0, 0>>,
                      <<last, region, 2^7 - 1>>, <<last + 1, region, 0>>}
        IN  /\ \A t \in 1..s.num_tables, w \in stops :
                    CaptureWalk(WithSnapshot(s, s.topas[t], w[1], w[2], w[3]),
                                tabs, 0, 0, 0)
                    = IF w[1] >= IPT_TOPA_MAX_TABLE_ENTRIES - 1 THEN 0
                      ELSE SizeBefore(tabs,
                              (t - 1) * (IPT_TOPA_MAX_TABLE_ENTRIES - 1) + w[1])
                           + w[2]
            /\ \A base \in {0, s.chunks[1], s.topas[1] + 8} :
                    CaptureWalk(WithSnapshot(s, base, 1, region, 0),
                                tabs, 0, 0, 0) = 0
            /\ s.output_base = s.topas[1] /\ s.output_mask_ptrs = U64(0, 0)
                  => compute_capture_size(s) = 0

\* A three-table slot stopped in its last region: the capture size is the
\* size of the regions before it plus the offset.
C36_Witness ==
    \E s \in AllocatedSlots(dev) :
        /\ s.num_tables = 3 /\ s.chunk_order = 1
        /\ s.output_base = s.topas[3]
        /\ s.output_mask_ptrs.lo \div 2^7 = 2
        /\ s.output_mask_ptrs.hi = PAGE_SIZE
        /\ compute_capture_size(s)
              = (s.num_chunks - 1) * 2 * PAGE_SIZE + PAGE_SIZE

\* ------------------------------------ assigned slots while inactive
\* Tracing is not active and some slot is assigned.
Stranded(d) ==
    /\ Present(d) /\ ~d.active
    /\ \E i \in SlotIdx(d) : SlotOf(d, i).assigned

\* C37: from a state in which tracing is not active and a slot is
\* assigned, start, stop and free_trace return BadState, so does
\* free_buffer of an assigned slot, and whatever operation is requested
\* tracing stays inactive, every assigned slot stays as it is, and none of
\* its buffers is released.
C37_Stranded ==
    Stranded(dev) =>
        \A o \in Ops \cup {"UNKNOWN"} : \A in \in Inputs(o) :
            LET r == Run(caps, dev, o, in)
            IN  /\ Stranded(r.dev)
                /\ \A i \in SlotIdx(dev) :
                      SlotOf(dev, i).assigned =>
                        /\ SlotOf(r.dev, i) = SlotOf(dev, i)
                        /\ Range(r.rel) \cap BuffersOf(SlotOf(dev, i)) = {}
                        /\ BuffersOf(SlotOf(dev, i)) \subseteq dma_live
                        /\ o = "FREE_BUFFER" /\ in.rq.sz = "ok"
                              /\ in.rq.descriptor = i
                              => r.ret = ZX_ERR_BAD_STATE
                /\ o \in {"START", "STOP", "FREE_TRACE"} /\ in.rq.sz = "ok"
                      => r.ret = ZX_ERR_BAD_STATE /\ r.dev = dev

\* Start failed on the second cpu: slot 0 is assigned, slot 1 is not,
\* and tracing is not active.
C37_Witness ==
    /\ Stranded(dev)
    /\ SlotOf(dev, 0).assigned /\ SlotOf(dev, 0).allocated
    /\ SlotOf(dev, 1).allocated /\ ~SlotOf(dev, 1).assigned
    /\ Run(caps, dev, "FREE_BUFFER", In(RqDesc(0, 0), EnvOk)).ret
            = ZX_ERR_BAD_STATE
    /\ Run(caps, dev, "FREE_BUFFER", In(RqDesc(1, 0), EnvOk)).ret = ZX_OK

\* ------------------------------------------------- failures of stop
\* C38: when the kernel refuses STOP, stop returns its status and the
\* device is unchanged (tracing stays active); when STOP is accepted and
\* GET_TRACE_DATA is refused for cpu k, stop returns that status, tracing
\* is no longer active, slots 0..k-1 are unassigned and hold the
\* registers the kernel returned for them, and slots k..num_traces-1 are
\* unchanged and still assigned.
C38_StopFailures ==
    Present(dev) /\ dev.active =>
        /\ \A st \in MtraceErrs :
              LET r == Run(caps, dev, "STOP",
                           In(RqPlain("ok"), [EnvOk EXCEPT !.st = st]))
              IN  /\ r.ret = st
                  /\ r.dev = dev
                  /\ Len(r.calls) = 1 /\ r.calls[1].action = "STOP"
        /\ \A k \in 0..(dev.num_traces - 1), e \in MtraceErrs,
                snap \in SnapKinds :
              LET r == Run(caps, dev, "STOP",
                           In(RqPlain("ok"),
                              [EnvOk EXCEPT !.fail_at = k, !.fail_err = e,
                                            !.snap = snap]))
              IN  /\ r.ret = e
                  /\ ~r.dev.active
                  /\ Len(r.calls) = k + 2
                  /\ r.calls[k + 2].action = "GET_TRACE_DATA"
                  /\ r.calls[k + 2].status = e
                  /\ \A i \in 0..(k - 1) :
                        /\ ~SlotOf(r.dev, i).assigned
                        /\ r.calls[i + 2].descriptor = i
                        /\ SlotRegs(SlotOf(r.dev, i)) = r.calls[i + 2].payload
                        /\ SlotOf(r.dev, i).chunks = SlotOf(dev, i).chunks
                        /\ SlotOf(r.dev, i).topas = SlotOf(dev, i).topas
                  /\ \A i \in k..(dev.num_traces - 1) :
                        /\ SlotOf(r.dev, i).assigned
                        /\ SlotOf(r.dev, i) = SlotOf(dev, i)

\* A stop whose GET_TRACE_DATA was refused for the second cpu: tracing is
\* not active, slot 0 is unassigned and holds the position tracing
\* stopped at, slot 1 is still assigned with the registers it was
\* allocated with.
C38_Witness ==
    /\ Present(dev) /\ ~dev.active
    /\ ~SlotOf(dev, 0).assigned
    /\ SlotOf(dev, 0).output_mask_ptrs = U64(PAGE_SIZE \div 2, 0)
    /\ SlotOf(dev, 1).assigned
    /\ SlotOf(dev, 1).output_mask_ptrs = U64(0, 0)
    /\ SlotOf(dev, 1).owner_cpu = 1

\* ------------------------------------- the configuration read back
\* What GET_BUFFER_CONFIG answers for slot i.
ConfigOf(d, i) == ipt_get_buffer_config(d, "ok", i).reply
\* The configuration read back is the one alloc_buffer was given.
ReadsBackRequest ==
    \A in \in WellFormed("ALLOC_BUFFER") :
        LET r == Run(caps, dev, "ALLOC_BUFFER", in)
        IN  r.ret = ZX_OK => ConfigOf(r.dev, r.reply[1]) = in.rq.buffer
\* Operation o on input `in` leaves the configuration read back for every
\* slot it does not free as it was.
KeepsConfig(o, in) ==
    LET r == Run(caps, dev, o, in)
    IN  Present(r.dev) =>
            \A i \in SlotIdx(dev) :
                SlotOf(dev, i).allocated /\ SlotOf(r.dev, i).allocated =>
                    ConfigOf(r.dev, i) = ConfigOf(dev, i)
\* C39: GET_BUFFER_CONFIG answers the configuration the slot was allocated
\* with: it does so right after alloc_buffer, and no operation that leaves
\* the slot allocated changes the answer (start and stop included).
C39_Original ==
    Present(dev) =>
        /\ ReadsBackRequest
        /\ \A o \in Ops \cup {"UNKNOWN"} : \A in \in Inputs(o) :
              KeepsConfig(o, in)
\* The answer changes only when a stop saves the registers of the slot.
ConfigChangesOnlyAtStop ==
    Present(dev) =>
        /\ ReadsBackRequest
        /\ \A o \in (Ops \cup {"UNKNOWN"}) \ {"STOP"} :
              \A in \in Inputs(o) : KeepsConfig(o, in)
        /\ \A in \in Inputs("STOP") :
              LET r == Run(caps, dev, "STOP", in)
              IN  \A i \in SlotIdx(dev) :
                      SlotOf(dev, i).allocated =>
                          /\ SlotOf(r.dev, i).allocated
                          /\ ConfigOf(r.dev, i).num_chunks
                               = ConfigOf(dev, i).num_chunks
                          /\ ConfigOf(r.dev, i).chunk_order
                               = ConfigOf(dev, i).chunk_order
                          /\ ConfigOf(r.dev, i).is_circular
                               = ConfigOf(dev, i).is_circular
                          /\ SlotOf(r.dev, i).assigned =>
                                ConfigOf(r.dev, i) = ConfigOf(dev, i)

\* ------------------------------------------------ buffer accounting
\* The io_buffers held by the slots of d that are allocated.
HeldBy(d) ==
    IF ~Present(d) THEN {}
    ELSE UNION {BuffersOf(SlotOf(d, i)) :
                    i \in {j \in SlotIdx(d) : SlotOf(d, j).allocated}}
\* Every allocated slot of d holds num_chunks + num_tables buffers, and no
\* buffer belongs to two slots.
CountsAdd(d) ==
    Present(d) =>
        /\ \A i \in SlotIdx(d) :
              SlotOf(d, i).allocated =>
                /\ Len(SlotOf(d, i).chunks) = SlotOf(d, i).num_chunks
                /\ Len(SlotOf(d, i).topas) = SlotOf(d, i).num_tables
                /\ Cardinality(BuffersOf(SlotOf(d, i)))
                     = SlotOf(d, i).num_chunks + SlotOf(d, i).num_tables
        /\ \A i, j \in SlotIdx(d) :
              i # j /\ SlotOf(d, i).allocated /\ SlotOf(d, j).allocated =>
                BuffersOf(SlotOf(d, i)) \cap BuffersOf(SlotOf(d, j)) = {}
\* q has no element twice.
NoRepeat(q) == \A i, j \in 1..Len(q) : i # j => q[i] # q[j]

\* C40: as long as only ioctls have run, the io_buffers initialised and
\* not yet released are exactly the chunks and tables of the allocated
\* slots, num_chunks + num_tables of them per slot (in every state, so
\* after every operation, failed ones included); every operation
\* initialises only buffers that are not live and releases only buffers
\* that are, each once; none is live after a free_trace that returned
\* ZX_OK.
C40_BufferAccounting ==
    released = "no" =>
        /\ dma_live = HeldBy(dev)
        /\ CountsAdd(dev)
        /\ \A o \in Ops \cup {"UNKNOWN"} : \A in \in Inputs(o) :
              LET r == Run(caps, dev, o, in)
              IN  /\ NoRepeat(r.rel) /\ NoRepeat(r.acq)
                  /\ Range(r.acq) \cap dma_live = {}
                  /\ Range(r.rel) \subseteq dma_live \cup Range(r.acq)
                  /\ o = "FREE_TRACE" /\ r.ret = ZX_OK =>
                        (dma_live \cup Range(r.acq)) \ Range(r.rel) = {}

\* Slot 0 holds the buffers of the larger request, slot 1 has been
\* allocated and freed, and exactly the buffers of slot 0 are live.
C40_Witness ==
    /\ released = "no" /\ Present(dev)
    /\ SlotOf(dev, 0).allocated
    /\ SlotOf(dev, 0).num_chunks = MaxReqChunks
    /\ ~SlotOf(dev, 1).allocated /\ SlotOf(dev, 1).num_chunks > 0
    /\ Cardinality(dma_live) = MaxReqChunks + SlotOf(dev, 0).num_tables
====
